---- MODULE Spec2Model ----
(***************************************************************************)
(* A model of the uxsim agent simulator: the memory store and retrieval    *)
(* (searchsim/agent.py, class Memory), the calls of the cognitive loop     *)
(* (Agent.perceive, feedback, plan, act, reflect), the decision policies   *)
(* (uxsim/policies: AgentPolicy, CognitiveLoopPolicy) and the simulation   *)
(* driver (uxsim/simulation.py, Simulation.run and run_with_persona).      *)
(*                                                                         *)
(* The specifications share the variables:                                 *)
(*   SpecPlan      calls to Agent.plan(), one reasoning attempt per step;  *)
(*   SpecAct       one call to Agent.act() on a fresh agent;               *)
(*   SpecRun       one run of a freshly constructed Simulation;            *)
(*   SpecMem       the memory store under appends, retrievals and the      *)
(*                 background enrichment of AgentPolicy.slow_loop;         *)
(*   SpecMain      the main path alone: perceive, act and retrieve;        *)
(*   SpecEnrich    the background loop under failing capabilities;         *)
(*   SpecTeardown  a run with an AgentPolicy, its task and its teardown;   *)
(*   SpecTick      the ticks of the two policies, call by call;            *)
(*   SpecCalls     single calls of perceive, feedback and reflect;         *)
(*   SpecVote      one CompositeRelevanceClassifier.is_relevant call;      *)
(*   SpecCompare   run and run_with_persona driven by one script;          *)
(*   SpecRetry     one call of a capability wrapped by async_retry;        *)
(*   SpecReuse     run calls repeated on one Simulation object;            *)
(*   SpecStop      a run during which Simulation.stop() may be called.     *)
(***************************************************************************)
EXTENDS Integers, Sequences, FiniteSets, TLC

VARIABLES
    \* ---- Memory (searchsim/agent.py:22-27)
    memories,               \* Memory.memories: the entries, in insertion order
    embeddings,             \* Memory.embeddings: None or one value per enriched entry
    importance_scores,      \* Memory.importance_scores: None or one value per entry
    timestamp,              \* Memory.timestamp: the tick counter
    \* ---- the coroutines that use the store
    sync,                   \* per caller, its update_embeddings_and_importance() call
    retr,                   \* the retrieve_relevant() call of the main path
    retrieved,              \* what retrieve_relevant() returned, while its caller holds it
    bg_pc,                  \* the position of AgentPolicy.slow_loop
    \* ---- Agent (searchsim/agent.py:183-189)
    current_plan,
    current_plan_rationale,
    next_step,
    state,                  \* Agent.state (AgentState)
    \* ---- one call of Agent.plan()
    plan_pc,                \* "idle" | "attempting" | "returned"
    attempt,                \* the loop variable of the retry loop
    plan_outcomes,          \* the outcome of each attempt of the call, in order
    plan_installed,         \* the response the call accepted, or NoResponse
    plan_ret,               \* what the call returned
    plan_calls,             \* calls made so far
    \* ---- Simulation (uxsim/simulation.py:28-36)
    max_steps,              \* config.max_steps
    step_count,             \* Simulation.step_count
    is_running,             \* Simulation.is_running
    results,                \* Simulation.results: the audit trail
    \* ---- one call of Simulation.run / run_with_persona
    method,                 \* which of the two run methods was called
    sim_pc,                 \* the position of the call
    action,                 \* the action of the step in progress
    step_result,            \* the audit entry of the step in progress
    decision_log,           \* the outcome of every policy.decide_action call
    submitted,              \* every environment.step call: the action type, the outcome
    loop_end,               \* how the step loop ended
    final_results,          \* the dictionary the call returns
    policy_cleaned,         \* policy.cleanup() was awaited
    env_closed,             \* environment.close() was awaited
    \* ---- the external capabilities (llm_client.py: async_chat, embed_text)
    capability,             \* which of their calls fail at present
    last_sync,              \* the background loop's last update_memory() call
    \* ---- the decision policy (AgentPolicy, CognitiveLoopPolicy) and one tick of it
    policy_type,            \* config.policy_type: "agent" | "cognitive_loop"
    reflection_frequency,   \* CognitiveLoopPolicy.reflection_frequency
    tick_pc,                \* the position of the decide_action / decide call
    gather,                 \* the positions of its feedback() and perceive() calls
    fb_arg,                 \* the last_action the tick's feedback() call was given
    last_action,            \* policy.last_action
    returned,               \* what the previous decide_action / decide call returned
    policy_step_count,      \* policy.step_count
    tick_log,               \* the calls of the tick in progress: starts and ends, in order
    tick_base,              \* the size of the store when the tick began
    tick_start,             \* the tick counter when the tick began
    act_base,               \* the size of the store when act() was called
    act_ret,                \* what the last act() call returned
    tasks_created,          \* asyncio.create_task(self.slow_loop()) calls so far
    \* ---- single calls of the core operations, seen from their caller
    op_ret,                 \* the last perceive() / feedback() / reflect() call and its result
    raised,                 \* the operations that have raised to their caller
    \* ---- CompositeRelevanceClassifier and one is_relevant call
    classifiers,            \* the members, each given by the vote it returns
    voting_strategy,        \* self.voting_strategy
    vote_results,           \* the local list `results` of the call in progress
    verdict,                \* what the is_relevant call returned
    \* ---- the two run methods driven by one script
    drive,                  \* max_steps and what the policy and the environment will answer
    reported,               \* the final results of each method for that script, once run
    \* ---- one call of a capability wrapped by async_retry (llm_client.py)
    retry_pc,               \* the position of the wrapper
    retry_attempt,          \* attempt, the loop variable
    wait,                   \* the next delay
    last_exception,         \* the exception of the latest failed invocation
    invoked,                \* the outcomes of the invocations of f so far, in order
    sleeps,                 \* the delays slept so far, in order
    retry_ret,              \* what the wrapper returned or raised
    \* ---- the life of one Simulation object beyond a single undisturbed run
    earlier_runs,           \* the run calls that had ended on it when the current one began
    stop_requested          \* Simulation.stop() was called during the current run

planVars == <<current_plan, current_plan_rationale, next_step, state, plan_pc,
              attempt, plan_outcomes, plan_installed, plan_ret, plan_calls>>
simVars == <<max_steps, step_count, is_running, results, method, sim_pc, action,
             step_result, decision_log, submitted, loop_end, final_results,
             policy_cleaned, env_closed>>
memVars == <<memories, embeddings, importance_scores, timestamp, sync, retr,
             retrieved, bg_pc>>
envVars == <<capability, last_sync>>
policyVars == <<policy_type, reflection_frequency, tick_pc, gather, fb_arg, last_action, returned,
                policy_step_count, tick_log, tick_base, tick_start, act_base,
                act_ret, tasks_created>>
listingVars == <<op_ret, raised>>
voteVars == <<classifiers, voting_strategy, vote_results, verdict>>
compareVars == <<drive, reported>>
retryVars == <<retry_pc, retry_attempt, wait, last_exception, invoked, sleeps, retry_ret>>
lifeVars == <<earlier_runs, stop_requested>>
callVars == <<listingVars, voteVars, compareVars, retryVars, lifeVars>>

\* Python's None, and a key that a JSON object does not have.
NoneVal == "<None>"
Missing == "<missing>"

(***************************************************************************)
(* Bounds of the model.                                                    *)
(***************************************************************************)
MaxPlanCalls == 2
MaxSteps == 3
MaxMemories == 2
MaxTick == 6
MaxInsights == 1
MaxStored == 4

(***************************************************************************)
(* Memory: the entries.                                                    *)
(***************************************************************************)
\* MemoryPiece(content, memory_type, timestamp); a content is a prefix and a text
\* (f"Plan: {self.current_plan}" is the prefix "Plan: " and the plan).
MemoryPiece(content, memory_type, ts) ==
    [content |-> content, memory_type |-> memory_type, timestamp |-> ts]

\* Memory.add_memory: the entry gets the store's tick, whatever it was built with.
add_memory(mems, memory, now) ==
    Append(mems, [memory EXCEPT !.timestamp = now])


(***************************************************************************)
(* Memory: the derived arrays and their enrichment                         *)
(***************************************************************************)
\* An attribute that is None, or an array with one value per enriched entry.
\* An embedding is represented by the index of the entry it was computed for,
\* an importance by that index and whether it is a scored or the default value.
NoArray == [is_none |-> TRUE, values |-> <<>>]
Array(values) == [is_none |-> FALSE, values |-> values]

\* len(self.embeddings): TypeError on None.
LenRaises(arr) == arr.is_none

\* len(x) if x is not None else 0
LenOrZero(arr) == IF arr.is_none THEN 0 ELSE Len(arr.values)

\* The indices lo..hi as a sequence (a list slice keeps the list's order).
IndexRange(lo, hi) == [k \in 1..(IF hi >= lo THEN hi - lo + 1 ELSE 0) |-> lo + k - 1]

Callers == {"main", "bg"}

NoSync ==
    [pc |-> "idle", to_embed |-> <<>>, embeds |-> "none", started |-> FALSE,
     to_update |-> <<>>, new_importance |-> <<>>]

\* A call that embeds the whole store every time it is made.
SyncEnter_WholeStore(emb, mems) ==
    IF mems = <<>> THEN NoSync
    ELSE [pc |-> "gather", to_embed |-> IndexRange(1, Len(mems)), embeds |-> "pending",
          started |-> FALSE, to_update |-> <<>>, new_importance |-> <<>>]

\* update_embeddings_and_importance() up to its first suspension point (the
\* gather): the call is over at once when the length test raises (caught by the
\* method's except), when nothing is new, or when the slice is empty.
SyncEnter(emb, mems) ==
    IF LenRaises(emb) THEN NoSync
    ELSE IF Len(emb.values) = Len(mems) THEN NoSync
    ELSE LET memory_to_embed == IndexRange(LenOrZero(emb) + 1, Len(mems))
         IN  IF memory_to_embed = <<>> THEN NoSync
             ELSE [pc |-> "gather", to_embed |-> memory_to_embed, embeds |-> "pending",
                   started |-> FALSE, to_update |-> <<>>, new_importance |-> <<>>]

\* What can happen next to a call suspended in the gather: its two tasks start
\* (update_importance takes its slice then), the batch embedding call ends, the
\* importance call for the next entry ends, the gather is over and the call
\* resumes.
SyncEvents == {"start", "embed_ok", "embed_fail", "imp_ok", "imp_fail", "resume"}

SyncEnabled(f, ev) ==
    /\ f.pc = "gather"
    /\ CASE ev = "start" -> ~f.started
         [] ev \in {"embed_ok", "embed_fail"} -> f.started /\ f.embeds = "pending"
         [] ev \in {"imp_ok", "imp_fail"} ->
                f.started /\ Len(f.new_importance) < Len(f.to_update)
         [] ev = "resume" ->
                /\ f.started
                /\ \/ f.embeds = "failed"
                   \/ f.embeds = "ok" /\ Len(f.new_importance) = Len(f.to_update)
         [] OTHER -> FALSE

\* The importance of one entry: score / 10, or 0.5 when the call or its JSON fails.
Importance(owner, ev) ==
    [owner |-> owner, value |-> IF ev = "imp_ok" THEN "scored" ELSE "default"]

SyncFrameAfter(f, ev, mems, imp) ==
    CASE ev = "start" ->
            [f EXCEPT !.started = TRUE,
                      !.to_update = IndexRange(LenOrZero(imp) + 1, Len(mems))]
      [] ev = "embed_ok" -> [f EXCEPT !.embeds = "ok"]
      [] ev = "embed_fail" -> [f EXCEPT !.embeds = "failed"]
      [] ev \in {"imp_ok", "imp_fail"} ->
            [f EXCEPT !.new_importance =
                Append(@, Importance(f.to_update[Len(f.new_importance) + 1], ev))]
      [] OTHER -> NoSync

\* The commit after the gather; an exception of the gather commits nothing.
EmbeddingsAfter(f, ev, emb) ==
    IF ev = "resume" /\ f.embeds = "ok"
    THEN IF emb.is_none \/ Len(emb.values) = 0 THEN Array(f.to_embed)
         ELSE Array(emb.values \o f.to_embed)
    ELSE emb

ImportanceAfter(f, ev, imp) ==
    IF ev = "resume" /\ f.embeds = "ok"
    THEN IF imp.is_none THEN Array(f.new_importance)
         ELSE Array(imp.values \o f.new_importance)
    ELSE imp

(***************************************************************************)
(* Memory.retrieve_relevant                                                *)
(***************************************************************************)
ObservationWindow == 3
ActionWindow == 5
FallbackCount == 5

Range(seq) == {seq[i] : i \in 1..Len(seq)}

Indices(mems) == [i \in 1..Len(mems) |-> i]

\* The observation window without the tick at its lower edge.
RecentObservations_Strict(mems, now) ==
    SelectSeq([i \in 1..Len(mems) |-> i],
              LAMBDA i : mems[i].memory_type = "observation"
                         /\ mems[i].timestamp > now - 3)

\* [m for m in self.memories if m.memory_type == "observation"
\*    and m.timestamp >= self.timestamp - 3]
RecentObservations(mems, now) ==
    SelectSeq(Indices(mems),
              LAMBDA i : mems[i].memory_type = "observation"
                         /\ mems[i].timestamp >= now - ObservationWindow)

\* The action window over the entries of every kind.
RecentActions_AnyKind(mems, now) ==
    SelectSeq([i \in 1..Len(mems) |-> i], LAMBDA i : mems[i].timestamp >= now - 5)

\* [m for m in self.memories if m.memory_type == "action"
\*    and m.timestamp >= self.timestamp - 5]
RecentActions(mems, now) ==
    SelectSeq(Indices(mems),
              LAMBDA i : mems[i].memory_type = "action"
                         /\ mems[i].timestamp >= now - ActionWindow)

\* The two lists joined the other way round.
Seed_ActionsFirst(mems, now, include_recent) ==
    IF include_recent
    THEN SelectSeq([i \in 1..Len(mems) |-> i],
                   LAMBDA i : mems[i].memory_type = "action"
                              /\ mems[i].timestamp >= now - 5)
         \o SelectSeq([i \in 1..Len(mems) |-> i],
                      LAMBDA i : mems[i].memory_type = "observation"
                                 /\ mems[i].timestamp >= now - 3)
    ELSE <<>>

\* results.extend(recent_observations + recent_actions)
Seed(mems, now, include_recent) ==
    IF include_recent THEN RecentObservations(mems, now) \o RecentActions(mems, now)
    ELSE <<>>

\* The list without its cut.
Prefix_Whole(seq, n) == seq

\* seq[:n]
Prefix(seq, n) ==
    IF n >= 0 THEN SubSeq(seq, 1, IF n < Len(seq) THEN n ELSE Len(seq))
    ELSE SubSeq(seq, 1, IF Len(seq) + n > 0 THEN Len(seq) + n ELSE 0)

\* self.memories[-5:]
Fallback(mems) ==
    IndexRange(IF Len(mems) > FallbackCount THEN Len(mems) - FallbackCount + 1 ELSE 1,
               Len(mems))

\* min(len(self.embeddings), len(self.memories), len(self.importance_scores) ...)
SmallestSize(emb, mems, imp) ==
    LET a == Len(emb.values)
        b == Len(mems)
        c == IF imp.is_none THEN Len(mems) ELSE Len(imp.values)
        ab == IF a < b THEN a ELSE b
    IN  IF ab < c THEN ab ELSE c

\* The orders np.argsort(-scores) can give for the first m entries: the scores
\* depend on the embedding values, so every order of them is possible.
Rankings(m) == {p \in [1..m -> 1..m] : \A i, j \in 1..m : p[i] = p[j] => i = j}

\* results + [m for m in retrieved_memories if m not in results], cut to n;
\* MemoryPiece is a dataclass, so `in` compares the entries by value.
Scored(mems, seed, ranking, n) ==
    LET top_indices == Prefix(ranking, n)
        fill == SelectSeq(top_indices,
                          LAMBDA i : \A k \in 1..Len(seed) : mems[seed[k]] # mems[i])
    IN  Prefix(seed \o fill, n)

\* How the enrichment call of a retrieval went: it was not made (empty store),
\* it raised inside and logged the error, it found nothing to do, it is in its
\* gather, it committed a batch, or its gather failed.
EnrichmentAtEntry(emb, f) ==
    IF LenRaises(emb) THEN "raised" ELSE IF f.pc = "idle" THEN "current" ELSE "pending"

EnrichmentAtResume(f) == IF f.embeds = "ok" THEN "committed" ELSE "failed"

NoCall ==
    [pc |-> "idle", n |-> 0, include_recent |-> FALSE, now |-> 0, seed |-> <<>>,
     enrichment |-> "none"]
NoRetrieval ==
    [valid |-> FALSE, n |-> 0, include_recent |-> FALSE, now |-> 0, stored |-> 0,
     path |-> "none", enrichment |-> "none", result |-> <<>>]

Returned(call, path, result, mems) ==
    [valid |-> TRUE, n |-> call.n, include_recent |-> call.include_recent,
     now |-> call.now, stored |-> Len(mems), path |-> path,
     enrichment |-> call.enrichment, result |-> result]

\* retrieve_relevant() after the enrichment call: the seed list when there are
\* no embeddings, else the call suspends in the query embedding.
AfterSync(call, emb, mems, imp) ==
    IF emb.is_none \/ Len(emb.values) = 0 \/ SmallestSize(emb, mems, imp) = 0
    THEN /\ retr' = NoCall
         /\ retrieved' = Returned(call, "seed", Prefix(call.seed, call.n), mems)
    ELSE /\ retr' = [call EXCEPT !.pc = "query"]
         /\ UNCHANGED retrieved

\* What can happen next to a retrieve_relevant() call: it is made; inside its
\* enrichment call, an event of that call; in the query embedding, its end.
RetrieveEvents == {"call", "query_ok", "query_fail"} \cup SyncEvents

\* One step of a retrieve_relevant(query, n, include_recent) call of the main
\* path, from one suspension point to the next.
MainRetrieve(n, include_recent, ev) ==
    /\ CASE retr.pc = "idle" ->
              /\ ev = "call"
              /\ IF memories = <<>>
                 THEN /\ retrieved' = [NoRetrieval EXCEPT !.valid = TRUE, !.n = n,
                                          !.include_recent = include_recent,
                                          !.now = timestamp, !.path = "empty"]
                      /\ UNCHANGED <<retr, sync>>
                 ELSE LET f == SyncEnter(embeddings, memories)
                          call == [pc |-> "sync", n |-> n, include_recent |-> include_recent,
                                   now |-> timestamp,
                                   seed |-> Seed(memories, timestamp, include_recent),
                                   enrichment |-> EnrichmentAtEntry(embeddings, f)]
                      IN  /\ sync' = [sync EXCEPT !["main"] = f]
                          /\ IF f.pc = "idle"
                             THEN AfterSync(call, embeddings, memories, importance_scores)
                             ELSE retr' = call /\ UNCHANGED retrieved
              /\ UNCHANGED <<embeddings, importance_scores>>
         [] retr.pc = "sync" ->
              /\ n = retr.n /\ include_recent = retr.include_recent
              /\ SyncEnabled(sync["main"], ev)
              /\ sync' = [sync EXCEPT !["main"] =
                             SyncFrameAfter(@, ev, memories, importance_scores)]
              /\ embeddings' = EmbeddingsAfter(sync["main"], ev, embeddings)
              /\ importance_scores' = ImportanceAfter(sync["main"], ev, importance_scores)
              /\ IF ev = "resume"
                 THEN AfterSync([retr EXCEPT !.enrichment =
                                     EnrichmentAtResume(sync["main"])],
                                embeddings', memories, importance_scores')
                 ELSE UNCHANGED <<retr, retrieved>>
         [] retr.pc = "query" ->
              /\ n = retr.n /\ include_recent = retr.include_recent
              /\ ev \in {"query_ok", "query_fail"}
              /\ retr' = NoCall
              /\ IF ev = "query_fail"
                 THEN retrieved' = Returned(retr, "fallback", Fallback(memories), memories)
                 ELSE \E ranking \in Rankings(SmallestSize(embeddings, memories,
                                                           importance_scores)) :
                          retrieved' = Returned(retr, "scored",
                                           Scored(memories, retr.seed, ranking, retr.n),
                                           memories)
              /\ UNCHANGED <<sync, embeddings, importance_scores>>
    /\ UNCHANGED <<memories, timestamp, bg_pc, state>>
    /\ UNCHANGED <<current_plan, current_plan_rationale, next_step, plan_pc, attempt,
                   plan_outcomes, plan_installed, plan_ret, plan_calls>>
    /\ UNCHANGED simVars
    /\ UNCHANGED <<envVars, policyVars, callVars>>

(***************************************************************************)
(* Agent.plan                                                              *)
(***************************************************************************)
max_retries == 3

FallbackPlan == "Continue with current approach"
FallbackRationale == "Using fallback plan due to LLM errors"
FallbackNextStep == "Try the next logical action"

PlanKeys == {"plan", "rationale", "next_step"}

\* What one reasoning call can give: it raises (the call fails, or its text is not
\* JSON), or it is a JSON object in which each of the three keys is missing or
\* has a value; a plan value may be null.
PlanResponses ==
    {[kind |-> "raise", plan |-> Missing, rationale |-> Missing, next_step |-> Missing]}
    \cup [kind : {"json"},
          plan : {Missing, NoneVal, "planA", "planB"},
          rationale : {Missing, "", "why"},
          next_step : {Missing, "stepA"}]

\* No response accepted (yet).
NoResponse ==
    [kind |-> "none", plan |-> Missing, rationale |-> Missing, next_step |-> Missing]

HasAllKeys_AnyKey(resp) == \E k \in PlanKeys : resp[k] # Missing

\* all(key in plan_data for key in ["plan", "rationale", "next_step"])
HasAllKeys(resp) == \A k \in PlanKeys : resp[k] # Missing

\* "raise" | "incomplete" | "complete"
OutcomeOf(resp) ==
    IF resp.kind = "raise" THEN "raise"
    ELSE IF HasAllKeys(resp) THEN "complete" ELSE "incomplete"

\* The except branch of the retry loop installs the fallback on the last attempt.
InstallsFallback(resp, att) == resp.kind = "raise" /\ att = max_retries - 1

Truthy_NotNone(s) == s # NoneVal

\* Python truthiness of a str-or-None.
Truthy(s) == s # NoneVal /\ s # ""

\* current_plan[:100] raises TypeError on None.
Sliceable(s) == s # NoneVal

\* The entries plan() appends after the loop: the plan, then the rationale as a
\* thought when it is non-empty.
PlanMemories(mems, plan, rationale, now) ==
    LET withPlan == add_memory(mems,
                        MemoryPiece([prefix |-> "Plan: ", text |-> plan], "plan", now), now)
    IN  IF Truthy(rationale)
        THEN add_memory(withPlan,
                 MemoryPiece([prefix |-> "", text |-> rationale], "thought", now), now)
        ELSE withPlan

\* return self.current_plan, or the except branch's constant when logging the
\* plan raised.
PlanReturn(plan) == IF Sliceable(plan) THEN plan ELSE FallbackPlan

\* plan() up to its first reasoning call: the state change and the retrieval
\* (which, with no embeddings, changes nothing in the store).
PlanCallStep ==
    /\ plan_pc \in {"idle", "returned"}
    /\ plan_calls < MaxPlanCalls
    /\ state' = "planning"
    /\ plan_pc' = "attempting"
    /\ attempt' = 0
    /\ plan_outcomes' = <<>>
    /\ plan_installed' = NoResponse
    /\ plan_ret' = NoneVal
    /\ plan_calls' = plan_calls + 1
    /\ UNCHANGED <<current_plan, current_plan_rationale, next_step>>

PlanCall ==
    PlanCallStep /\ UNCHANGED <<memVars, simVars>> /\ UNCHANGED <<envVars, policyVars, callVars>>

\* One iteration of the retry loop; when the loop ends (break, or the third
\* attempt is over) the rest of plan() runs in the same step, as it has no
\* suspension point.
PlanAttemptStep(resp) ==
    /\ plan_pc = "attempting"
    /\ attempt < max_retries
    /\ LET accepted == resp.kind = "json" /\ HasAllKeys(resp)
           fallback == InstallsFallback(resp, attempt)
           plan == IF accepted THEN resp.plan
                   ELSE IF fallback THEN FallbackPlan ELSE current_plan
           rationale == IF accepted THEN resp.rationale
                        ELSE IF fallback THEN FallbackRationale
                        ELSE current_plan_rationale
           step == IF accepted THEN resp.next_step
                   ELSE IF fallback THEN FallbackNextStep ELSE next_step
           over == accepted \/ attempt + 1 = max_retries
       IN  /\ current_plan' = plan
           /\ current_plan_rationale' = rationale
           /\ next_step' = step
           /\ plan_outcomes' = Append(plan_outcomes, OutcomeOf(resp))
           /\ plan_installed' = IF accepted THEN resp ELSE plan_installed
           /\ attempt' = IF accepted THEN attempt ELSE attempt + 1
           /\ IF over
              THEN /\ plan_pc' = "returned"
                   /\ memories' = PlanMemories(memories, plan, rationale, timestamp)
                   /\ plan_ret' = PlanReturn(plan)
              ELSE /\ plan_pc' = "attempting"
                   /\ UNCHANGED <<memories, plan_ret>>
    /\ UNCHANGED <<state, plan_calls, embeddings, importance_scores, timestamp,
                   sync, retr, retrieved, bg_pc>>

PlanAttempt(resp) ==
    PlanAttemptStep(resp) /\ UNCHANGED simVars /\ UNCHANGED <<envVars, policyVars, callVars>>

InitAgent ==
    /\ current_plan = NoneVal
    /\ current_plan_rationale = NoneVal
    /\ next_step = NoneVal
    /\ state = "idle"

\* A store whose embeddings start as an empty array, not as None.
InitMemory_EmptyArrays ==
    /\ memories = <<>>
    /\ embeddings = Array(<<>>)
    /\ importance_scores = NoArray
    /\ timestamp = 0
    /\ sync = [c \in Callers |-> NoSync]
    /\ retr = NoCall
    /\ retrieved = NoRetrieval
    /\ bg_pc = "reflect"

\* The capabilities as they are while every call succeeds, and the record of a
\* background loop that has made no update_memory() call yet.
AllOk == [embed |-> "ok", importance_fails |-> {}]
NoSyncLog ==
    [called |-> FALSE, again |-> FALSE, embed |-> "ok", first |-> 0, last |-> 0]

InitCapability == capability = AllOk /\ last_sync = NoSyncLog


\* Memory.__init__, with the background loop about to run and no call in flight.
InitMemory ==
    /\ memories = <<>>
    /\ embeddings = NoArray
    /\ importance_scores = NoArray
    /\ timestamp = 0
    /\ sync = [c \in Callers |-> NoSync]
    /\ retr = NoCall
    /\ retrieved = NoRetrieval
    /\ bg_pc = "reflect"

InitPlanCall ==
    /\ plan_pc = "idle"
    /\ attempt = 0
    /\ plan_outcomes = <<>>
    /\ plan_installed = NoResponse
    /\ plan_ret = NoneVal
    /\ plan_calls = 0

NextPlan ==
    \/ PlanCall
    \/ \E resp \in PlanResponses : PlanAttempt(resp)


(***************************************************************************)
(* Simulation.run and Simulation.run_with_persona                          *)
(***************************************************************************)
RunMethods == {"run", "run_with_persona"}

\* What policy.decide_action can give the driver: it raises, or it returns an
\* action; a stop action may carry a reason.
Decisions ==
    {[kind |-> "raise", type |-> Missing, reason |-> Missing]}
    \cup [kind : {"action"}, type : {"click"}, reason : {Missing}]
    \cup [kind : {"action"}, type : {"stop"}, reason : {Missing, "done"}]

NoAction == [kind |-> "none", type |-> Missing, reason |-> Missing]

\* What environment.step can give: an observation, an observation carrying an
\* error message, or an exception.
StepOutcomes == {"ok", "error_message", "raise"}

NoEntry == [step |-> 0, action |-> Missing, stop_reason |-> Missing, error |-> Missing]
NoResults == [status |-> Missing, completed |-> FALSE, total_steps |-> 0 - 1, steps |-> <<>>]

LoopCondition_OffByOne(sc, ms, running) == sc <= ms /\ running

\* while self.step_count < self.config.max_steps and self.is_running
LoopCondition(sc, ms, running) == sc < ms /\ running

StepResult_ZeroBased(sc, act) ==
    [step |-> sc, action |-> act.type, stop_reason |-> Missing, error |-> Missing]

\* step_result = {"step": self.step_count + 1, ..., "action": action.to_dict(), ...}
StepResult(sc, act) ==
    [step |-> sc + 1, action |-> act.type, stop_reason |-> Missing, error |-> Missing]

\* action.parameters.get("reason", "Agent completed task")
StopReason(act) == IF act.reason = Missing THEN "Agent completed task" ELSE act.reason

\* error_result = {"step": self.step_count + 1, "error": str(e), ...}
ErrorResult(sc) ==
    [step |-> sc + 1, action |-> Missing, stop_reason |-> Missing, error |-> "exception"]

IsStop_Never(act) == FALSE

\* if action.type == ActionType.STOP: ...; break
IsStop(act) == act.type = "stop"

AfterStepError_Continue == "loop"

\* Where the loop goes after the except branch of a step: break.
AfterStepError == "finalize"

FinalStatus_Inverted(m, sc, ms) ==
    IF m = "run" THEN Missing
    ELSE IF sc < ms THEN "max_steps_reached" ELSE "completed"

\* "status": run_with_persona reports one, run has no such key.
FinalStatus(m, sc, ms) ==
    IF m = "run" THEN Missing
    ELSE IF sc < ms THEN "completed" ELSE "max_steps_reached"

\* "completed": self.step_count < self.config.max_steps
Completed(sc, ms) == sc < ms

FinalResults_RunCountsEntries(m, sc, ms, res) ==
    [status |-> FinalStatus(m, sc, ms), completed |-> Completed(sc, ms),
     total_steps |-> IF m = "run" THEN Len(res) ELSE sc, steps |-> res]

\* final_results = {..., "steps": self.results, "total_steps": self.step_count, ...}
FinalResults(m, sc, ms, res) ==
    [status |-> FinalStatus(m, sc, ms), completed |-> Completed(sc, ms),
     total_steps |-> sc, steps |-> res]

\* The call, up to its first await: is_running is set.
RunBegin(m) ==
    /\ sim_pc = "constructed"
    /\ method' = m
    /\ is_running' = TRUE
    /\ sim_pc' = "setup"
    /\ UNCHANGED <<max_steps, step_count, results, action, step_result, decision_log,
                   submitted, loop_end, final_results, policy_cleaned, env_closed>>
    /\ UNCHANGED <<memVars, planVars>>
    /\ UNCHANGED <<envVars, policyVars, callVars>>

\* Persona, components, policy initialisation and environment.reset(): an
\* exception of any of them is re-raised as SimulationException after finally.
Setup(ok) ==
    /\ sim_pc = "setup"
    /\ sim_pc' = IF ok THEN "loop" ELSE "finally"
    /\ loop_end' = IF ok THEN loop_end ELSE "setup_failed"
    /\ UNCHANGED <<max_steps, step_count, is_running, results, method, action,
                   step_result, decision_log, submitted, final_results,
                   policy_cleaned, env_closed>>
    /\ UNCHANGED <<memVars, planVars>>
    /\ UNCHANGED <<envVars, policyVars, callVars>>

\* The loop test fails: the loop is over.
LoopExit ==
    /\ sim_pc = "loop"
    /\ ~LoopCondition(step_count, max_steps, is_running)
    /\ sim_pc' = "finalize"
    /\ loop_end' = "max_steps"
    /\ UNCHANGED <<max_steps, step_count, is_running, results, method, action,
                   step_result, decision_log, submitted, final_results,
                   policy_cleaned, env_closed>>
    /\ UNCHANGED <<memVars, planVars>>
    /\ UNCHANGED <<envVars, policyVars, callVars>>

\* The loop test holds and the policy decides: the step is recorded; a stop
\* action ends the loop, an exception is recorded and ends the loop.
DecideStep(d) ==
    /\ sim_pc = "loop"
    /\ LoopCondition(step_count, max_steps, is_running)
    /\ decision_log' = Append(decision_log, IF d.kind = "raise" THEN "raise" ELSE d.type)
    /\ IF d.kind = "raise"
       THEN /\ results' = Append(results, ErrorResult(step_count))
            /\ sim_pc' = AfterStepError
            /\ loop_end' = "error"
            /\ UNCHANGED <<action, step_result>>
       ELSE IF IsStop(d)
       THEN /\ results' = Append(results,
                              [StepResult(step_count, d) EXCEPT !.stop_reason = StopReason(d)])
            /\ sim_pc' = "finalize"
            /\ loop_end' = "stop"
            /\ action' = d
            /\ UNCHANGED step_result
       ELSE /\ action' = d
            /\ step_result' = StepResult(step_count, d)
            /\ sim_pc' = "stepping"
            /\ UNCHANGED <<results, loop_end>>
    /\ UNCHANGED <<max_steps, step_count, is_running, method, submitted, final_results,
                   policy_cleaned, env_closed>>

Decide(d) == DecideStep(d) /\ UNCHANGED <<memVars, planVars>> /\ UNCHANGED <<envVars, policyVars, callVars>>

\* environment.step(action): the entry is appended and the counter incremented,
\* or the exception is recorded and ends the loop.
EnvStep(o) ==
    /\ sim_pc = "stepping"
    /\ submitted' = Append(submitted, [type |-> action.type, outcome |-> o])
    /\ IF o = "raise"
       THEN /\ results' = Append(results, ErrorResult(step_count))
            /\ sim_pc' = AfterStepError
            /\ loop_end' = "error"
            /\ UNCHANGED step_count
       ELSE /\ results' = Append(results,
                              IF o = "error_message"
                              THEN [step_result EXCEPT !.error = "environment error"]
                              ELSE step_result)
            /\ step_count' = step_count + 1
            /\ sim_pc' = "loop"
            /\ UNCHANGED loop_end
    /\ UNCHANGED <<max_steps, is_running, method, action, step_result, decision_log,
                   final_results, policy_cleaned, env_closed>>
    /\ UNCHANGED <<memVars, planVars>>
    /\ UNCHANGED <<envVars, policyVars, callVars>>

\* After the loop: the final results are built (and saved; a failure to save is
\* swallowed by _save_results).
Finalize ==
    /\ sim_pc = "finalize"
    /\ final_results' = FinalResults(method, step_count, max_steps, results)
    /\ sim_pc' = "finally"
    /\ UNCHANGED <<max_steps, step_count, is_running, results, method, action,
                   step_result, decision_log, submitted, loop_end,
                   policy_cleaned, env_closed>>
    /\ UNCHANGED <<memVars, planVars>>
    /\ UNCHANGED <<envVars, policyVars, callVars>>

\* The finally block: is_running is cleared, the policy cleaned up (its failure
\* swallowed) and, in run only, the environment closed; then the call returns
\* the results or raises SimulationException.
FinallyStep ==
    /\ sim_pc = "finally"
    /\ is_running' = FALSE
    /\ policy_cleaned' = TRUE
    /\ env_closed' = (method = "run")
    /\ sim_pc' = IF loop_end = "setup_failed" THEN "raised" ELSE "returned"
    /\ UNCHANGED <<max_steps, step_count, results, method, action, step_result,
                   decision_log, submitted, loop_end, final_results>>

Finally == FinallyStep /\ UNCHANGED <<memVars, planVars>> /\ UNCHANGED <<envVars, policyVars, callVars>>

\* config.get("reflection_frequency", 3)
DefaultReflectionFrequency == 3

\* No act() call has returned (act_ret: the response the last call got and the
\* list it returned).
NoActResult == [returned |-> FALSE, response |-> "none", actions |-> <<>>]

\* No call of the gather of a tick: neither feedback() nor perceive() was called.
NoGather == [feedback |-> "none", perceive |-> "none"]

\* AgentPolicy.__init__ / CognitiveLoopPolicy.__init__: no action decided yet,
\* no step counted, no background task; and no tick in progress.
InitPolicyState ==
    /\ tick_pc = "idle"
    /\ gather = NoGather
    /\ fb_arg = NoAction
    /\ last_action = NoAction
    /\ returned = NoAction
    /\ policy_step_count = 0
    /\ tick_log = <<>>
    /\ tick_base = 0
    /\ tick_start = 0
    /\ act_base = 0
    /\ act_ret = NoActResult
    /\ tasks_created = 0

\* No core operation has been called from outside yet.
NoListingCall == [op |-> "none", response |-> "none", value |-> <<>>]
InitListing ==
    /\ op_ret = NoListingCall
    /\ raised = {}

\* No is_relevant call has returned yet.
NoVerdict == [returned |-> FALSE, value |-> FALSE]

\* CompositeRelevanceClassifier(classifiers=[]) with the default strategy.
InitNoClassifiers ==
    /\ classifiers = <<>>
    /\ voting_strategy = "majority"
    /\ vote_results = <<>>
    /\ verdict = NoVerdict

\* No script, and neither method has been run on one.
NoDrive == [max_steps |-> 0, decisions |-> <<>>, responses |-> <<>>]
NotReported == [m \in RunMethods |-> NoResults]
InitNoDrive ==
    /\ drive = NoDrive
    /\ reported = NotReported

\* No wrapped call has been made.
NoOutcome == [kind |-> "none", value |-> NoneVal]
InitRetry ==
    /\ retry_pc = "idle"
    /\ retry_attempt = 0
    /\ wait = 0
    /\ last_exception = NoneVal
    /\ invoked = <<>>
    /\ sleeps = <<>>
    /\ retry_ret = NoOutcome

\* A Simulation no run method was called on, and no stop() call.
InitLife ==
    /\ earlier_runs = 0
    /\ stop_requested = FALSE

InitCalls == InitListing /\ InitNoClassifiers /\ InitNoDrive /\ InitRetry /\ InitLife

\* The policy of the default configuration of these runs.
InitPolicy ==
    /\ policy_type = "agent"
    /\ reflection_frequency = DefaultReflectionFrequency
    /\ InitPolicyState

\* A Simulation as constructed, for some configured max_steps.
InitSimulation ==
    /\ max_steps \in 0..MaxSteps
    /\ step_count = 0
    /\ is_running = FALSE
    /\ results = <<>>
    /\ method = "run"
    /\ sim_pc = "constructed"
    /\ action = NoAction
    /\ step_result = NoEntry
    /\ decision_log = <<>>
    /\ submitted = <<>>
    /\ loop_end = "none"
    /\ final_results = NoResults
    /\ policy_cleaned = FALSE
    /\ env_closed = FALSE

InitRun == InitSimulation /\ InitPlanCall /\ InitAgent /\ InitMemory /\ InitCapability /\ InitPolicy /\ InitCalls

NextRun ==
    \/ \E m \in RunMethods : RunBegin(m)
    \/ \E ok \in BOOLEAN : Setup(ok)
    \/ LoopExit
    \/ \E d \in Decisions : Decide(d)
    \/ \E o \in StepOutcomes : EnvStep(o)
    \/ Finalize
    \/ Finally

vars == <<memVars, planVars, simVars, envVars, policyVars, callVars>>

\* A Simulation that is constructed and never run, beside the agent.
IdleSimulation ==
    /\ InitSimulation
    /\ max_steps = 0

InitPlan == InitAgent /\ InitMemory /\ InitPlanCall /\ IdleSimulation /\ InitCapability /\ InitPolicy /\ InitCalls

(***************************************************************************)
(* The main path's other uses of the store, and the background loop        *)
(***************************************************************************)
\* The kinds the main path appends (perceive; act; feedback and plan).
MainKinds == {"observation", "action", "thought"}

Content == [prefix |-> "", text |-> "m"]

\* for item in ...: await self.memory.add_memory(MemoryPiece(item, kind, now))
RECURSIVE AddAll(_, _, _, _)
AddAll(mems, kind, count, now) ==
    IF count = 0 THEN mems
    ELSE AddAll(add_memory(mems, MemoryPiece(Content, kind, now), now), kind, count - 1, now)

\* perceive / feedback / act append an entry between two suspension points; the
\* caller of an earlier retrieval has dropped its list by then.
MainAppend(kind) ==
    /\ retr.pc = "idle"
    /\ Len(memories) < MaxMemories
    /\ memories' = add_memory(memories, MemoryPiece(Content, kind, timestamp), timestamp)
    /\ retrieved' = NoRetrieval
    /\ UNCHANGED <<embeddings, importance_scores, timestamp, sync, retr, bg_pc>>
    /\ UNCHANGED <<planVars, simVars>>
    /\ UNCHANGED <<envVars, policyVars, callVars>>

\* self.agent.memory.timestamp += 1, at the end of a tick.
MainTick ==
    /\ retr.pc = "idle"
    /\ timestamp < MaxTick
    /\ timestamp' = timestamp + 1
    /\ retrieved' = NoRetrieval
    /\ UNCHANGED <<memories, embeddings, importance_scores, sync, retr, bg_pc>>
    /\ UNCHANGED <<planVars, simVars>>
    /\ UNCHANGED <<envVars, policyVars, callVars>>

\* slow_loop: reflect() up to its reasoning call; with an empty store it
\* returns at once.
BgReflectCall ==
    /\ bg_pc = "reflect"
    /\ state' = "reflecting"
    /\ bg_pc' = IF memories = <<>> THEN "update" ELSE "reflecting"
    /\ UNCHANGED <<memories, embeddings, importance_scores, timestamp, sync, retr,
                   retrieved>>
    /\ UNCHANGED <<current_plan, current_plan_rationale, next_step, plan_pc, attempt,
                   plan_outcomes, plan_installed, plan_ret, plan_calls>>
    /\ UNCHANGED simVars
    /\ UNCHANGED <<envVars, policyVars, callVars>>

\* reflect() after its reasoning call: one reflection entry per insight; a
\* failed call or unparsable answer gives none.
BgReflectReturn(insights) ==
    /\ bg_pc = "reflecting"
    /\ Len(memories) + insights <= MaxMemories
    /\ memories' = AddAll(memories, "reflection", insights, timestamp)
    /\ bg_pc' = "update"
    /\ UNCHANGED <<embeddings, importance_scores, timestamp, sync, retr, retrieved>>
    /\ UNCHANGED <<planVars, simVars>>
    /\ UNCHANGED <<envVars, policyVars, callVars>>

\* slow_loop: one step of its update_memory() call, from one suspension point
\* to the next.
UpdateMemoryStep(ev) ==
    /\ bg_pc = "update"
    /\ IF sync["bg"].pc = "idle"
       THEN /\ ev = "call"
            /\ sync' = [sync EXCEPT !["bg"] = SyncEnter(embeddings, memories)]
            /\ bg_pc' = IF sync'["bg"].pc = "idle" THEN "sleep" ELSE "update"
            /\ UNCHANGED <<embeddings, importance_scores>>
       ELSE /\ SyncEnabled(sync["bg"], ev)
            /\ sync' = [sync EXCEPT !["bg"] =
                           SyncFrameAfter(@, ev, memories, importance_scores)]
            /\ embeddings' = EmbeddingsAfter(sync["bg"], ev, embeddings)
            /\ importance_scores' = ImportanceAfter(sync["bg"], ev, importance_scores)
            /\ bg_pc' = IF ev = "resume" THEN "sleep" ELSE "update"
    /\ UNCHANGED <<memories, timestamp, retr, retrieved>>
    /\ UNCHANGED <<planVars, simVars>>

BgUpdateMemory(ev) == UpdateMemoryStep(ev) /\ UNCHANGED <<envVars, policyVars, callVars>>

\* slow_loop: asyncio.sleep(1) is over.
BgSleep ==
    /\ bg_pc = "sleep"
    /\ bg_pc' = "reflect"
    /\ UNCHANGED <<memories, embeddings, importance_scores, timestamp, sync, retr,
                   retrieved>>
    /\ UNCHANGED <<planVars, simVars>>
    /\ UNCHANGED <<envVars, policyVars, callVars>>

\* The store as constructed, with the background loop about to run.
InitMem == InitAgent /\ InitMemory /\ InitPlanCall /\ IdleSimulation /\ InitCapability /\ InitPolicy /\ InitCalls

NextMem ==
    \/ \E kind \in MainKinds : MainAppend(kind)
    \/ MainTick
    \/ \E n \in 0..(MaxMemories + 1), include_recent \in BOOLEAN, ev \in RetrieveEvents :
           MainRetrieve(n, include_recent, ev)
    \/ BgReflectCall
    \/ \E insights \in 0..MaxInsights : BgReflectReturn(insights)
    \/ \E ev \in {"call"} \cup SyncEvents : BgUpdateMemory(ev)
    \/ BgSleep

SpecMem == InitMem /\ [][NextMem]_vars

(***************************************************************************)
(* The background loop's enrichment calls under failing capabilities       *)
(***************************************************************************)
\* The embedding call fails or not; the importance call fails for at most one
\* entry of the store.
Capabilities ==
    [embed : {"ok", "fail"},
     importance_fails : {{}} \cup {{k} : k \in 1..MaxMemories}]

\* The capabilities change between two calls of the program.
SetCapability(c) ==
    /\ c # capability
    /\ \A caller \in Callers : sync[caller].pc = "idle"
    /\ capability' = c
    /\ UNCHANGED last_sync
    /\ UNCHANGED <<policyVars, callVars>>
    /\ UNCHANGED <<memVars, planVars, simVars>>

\* What the capabilities allow a call suspended in the gather to see next.
Allows(cap, f, ev) ==
    CASE ev = "embed_ok" -> cap.embed = "ok"
      [] ev = "embed_fail" -> cap.embed = "fail"
      [] ev \in {"imp_ok", "imp_fail"} ->
            /\ Len(f.new_importance) < Len(f.to_update)
            /\ (ev = "imp_fail") <=>
                   (f.to_update[Len(f.new_importance) + 1] \in cap.importance_fails)
      [] OTHER -> TRUE

\* The record of a call of the background loop, taken when it is made: whether
\* it follows a call without an append in between, what the embedding
\* capability was, the entries that were not enriched (first to last).
SyncLogAtCall(log, cap, emb, mems) ==
    [called |-> TRUE, again |-> log.called /\ log.last = Len(mems),
     embed |-> cap.embed, first |-> LenOrZero(emb) + 1, last |-> Len(mems)]

\* One step of the background loop's update_memory() call, recorded.
Enrich(ev) ==
    /\ Allows(capability, sync["bg"], ev)
    /\ UpdateMemoryStep(ev)
    /\ last_sync' =
           IF sync["bg"].pc = "idle"
           THEN SyncLogAtCall(last_sync, capability, embeddings, memories)
           ELSE last_sync
    /\ UNCHANGED capability
    /\ UNCHANGED <<policyVars, callVars>>

NextEnrich ==
    \/ \E kind \in MainKinds : MainAppend(kind)
    \/ BgReflectCall
    \/ \E insights \in 0..MaxInsights : BgReflectReturn(insights)
    \/ \E ev \in {"call"} \cup SyncEvents : Enrich(ev)
    \/ BgSleep
    \/ \E c \in Capabilities : SetCapability(c)

SpecEnrich == InitMem /\ [][NextEnrich]_vars

(***************************************************************************)
(* The main path alone: perceive, act and retrieve over the ticks          *)
(***************************************************************************)
\* retrieve_relevant(..., n: int = 10, ...)
DefaultN == 10

\* perceive(): one observation entry per perception, appended in one go (no
\* add_memory call suspends).
Perceive(count) ==
    /\ retr.pc = "idle"
    /\ Len(memories) + count <= MaxStored
    /\ memories' = AddAll(memories, "observation", count, timestamp)
    /\ retrieved' = NoRetrieval
    /\ UNCHANGED <<embeddings, importance_scores, timestamp, sync, retr, bg_pc>>
    /\ UNCHANGED <<planVars, simVars>>
    /\ UNCHANGED <<envVars, policyVars, callVars>>

\* act(): one action entry per selected action.
Act(count) ==
    /\ retr.pc = "idle"
    /\ Len(memories) + count <= MaxStored
    /\ memories' = AddAll(memories, "action", count, timestamp)
    /\ retrieved' = NoRetrieval
    /\ UNCHANGED <<embeddings, importance_scores, timestamp, sync, retr, bg_pc>>
    /\ UNCHANGED <<planVars, simVars>>
    /\ UNCHANGED <<envVars, policyVars, callVars>>

\* The caps the calls are made with: one that cuts, and the default.
Caps == {1, DefaultN}

NextMain ==
    \/ \E count \in 1..2 : Perceive(count)
    \/ \E count \in 1..2 : Act(count)
    \/ MainTick
    \/ \E n \in Caps, include_recent \in BOOLEAN : MainRetrieve(n, include_recent, "call")

SpecMain == InitMem /\ [][NextMain]_vars

(***************************************************************************)
(* A run whose policy is an AgentPolicy: the background task and teardown  *)
(***************************************************************************)
\* How a decide_action call of the AgentPolicy goes: an exception before the
\* background task is created, one after it, or none. An exception is caught
\* and answered with a stop action.
PolicyOutcomes == {"early_error", "late_error", "normal"}

\* if self.slow_loop_task is None and self.enable_reflection: create_task(...)
StartTask(pc, outcome) ==
    IF pc = "unstarted" /\ outcome # "early_error" THEN "reflect" ELSE pc

\* The task is left running.
CleanupTask_NoCancel(pc) == pc

\* cleanup(): the task is cancelled and awaited; CancelledError passes every
\* `except Exception` of the loop and of the calls it is suspended in.
CleanupTask(pc) == IF pc = "unstarted" THEN "unstarted" ELSE "cancelled"

\* AgentPolicy.decide_action: perceive appends its observations, the background
\* task is created by the first call, the tick is counted when no exception
\* ends the call. The call itself never raises.
PolicyDecide(d, outcome, perceived) ==
    /\ d.kind # "raise"
    /\ outcome # "normal" => IsStop(d)
    /\ DecideStep(d)
    /\ Len(memories) + perceived <= MaxMemories
    /\ memories' = AddAll(memories, "observation", perceived, timestamp)
    /\ bg_pc' = StartTask(bg_pc, outcome)
    /\ timestamp' = IF outcome = "normal" THEN timestamp + 1 ELSE timestamp
    /\ UNCHANGED <<embeddings, importance_scores, sync, retr, retrieved>>
    /\ UNCHANGED planVars
    /\ UNCHANGED <<envVars, policyVars, callVars>>

\* The finally block of the run with AgentPolicy.cleanup(): the call the task
\* was suspended in is dropped with it.
Teardown ==
    /\ FinallyStep
    /\ bg_pc' = CleanupTask(bg_pc)
    /\ sync' = IF bg_pc' = "cancelled" THEN [sync EXCEPT !["bg"] = NoSync] ELSE sync
    /\ UNCHANGED <<memories, embeddings, importance_scores, timestamp, retr, retrieved>>
    /\ UNCHANGED planVars
    /\ UNCHANGED <<envVars, policyVars, callVars>>

\* A constructed Simulation and agent; no background task yet.
InitTeardown ==
    /\ InitSimulation /\ InitPlanCall /\ InitAgent /\ InitCapability /\ InitPolicy /\ InitCalls
    /\ memories = <<>>
    /\ embeddings = NoArray
    /\ importance_scores = NoArray
    /\ timestamp = 0
    /\ sync = [c \in Callers |-> NoSync]
    /\ retr = NoCall
    /\ retrieved = NoRetrieval
    /\ bg_pc = "unstarted"

NextTeardown ==
    \/ \E m \in RunMethods : RunBegin(m)
    \/ \E ok \in BOOLEAN : Setup(ok)
    \/ LoopExit
    \/ \E d \in Decisions, outcome \in PolicyOutcomes, perceived \in 0..1 :
           PolicyDecide(d, outcome, perceived)
    \/ \E o \in StepOutcomes : EnvStep(o)
    \/ Finalize
    \/ Teardown
    \/ BgReflectCall
    \/ \E insights \in 0..MaxInsights : BgReflectReturn(insights)
    \/ \E ev \in {"call"} \cup SyncEvents : BgUpdateMemory(ev)
    \/ BgSleep

SpecTeardown == InitTeardown /\ [][NextTeardown]_vars

SpecPlan == InitPlan /\ [][NextPlan]_vars

SpecRun == InitRun /\ [][NextRun]_vars

\* The event loop resumes a call whenever what it awaits has completed.
FairSpecRun == SpecRun /\ WF_vars(NextRun)

(***************************************************************************)
(* Agent.act: from the action-selection response to the actions            *)
(***************************************************************************)
\* The largest number of items of a response.
MaxActions == 2

\* class ActionType(Enum): the values.
ActionType == {"search", "click", "type", "select", "back", "wait", "stop"}

\* What the "type" of an item can be: missing, null, a name (one of them in
\* upper case), a string that is no name.
ItemTypes == {Missing, NoneVal, "CLICK", "fly"} \cup ActionType

\* An item of "actions" that is no JSON object (a string, a number).
NotAnObject ==
    [shape |-> "other", type |-> Missing, element_id |-> Missing, reason |-> Missing]

\* The items: JSON objects with or without "type", "element_id" and "reason"
\* (none has "selector", "description", "query", "text" or "value"), or another
\* JSON value.
Items ==
    [shape : {"object"}, type : ItemTypes, element_id : {Missing, "x"},
     reason : {Missing, "r"}]
    \cup {NotAnObject}

\* What the reasoning call of act() can give: it raises (the call fails, or its
\* text is not JSON), or a JSON object whose "actions" is a list of items.
ActResponses ==
    {[kind |-> "raise", actions |-> <<>>]}
    \cup [kind : {"json"},
          actions : UNION {[1..k -> Items] : k \in 0..MaxActions}]

\* str.lower(), on the strings of ItemTypes.
Lower(s) == IF s = "CLICK" THEN "click" ELSE s

\* dict.get(key, default)
Get(v, default) == IF v = Missing THEN default ELSE v

\* action_dict.get(...) raises AttributeError on an item that is no object,
\* and .lower() raises it on a null type.
ItemRaises(item) == item.shape # "object" \/ item.type = NoneVal

\* action_type_mapping.get(action_dict.get("type", "").lower(), ActionType.STOP)
MappedType(item) ==
    LET t == Lower(Get(item.type, ""))
    IN  IF t \in ActionType THEN t ELSE "stop"

DefaultStopReason == "Agent decided to stop"

ActionFor_AlwaysStop(item) ==
    [kind |-> "action", type |-> "stop", element_id |-> Missing,
     reason |-> Get(item.reason, DefaultStopReason)]

\* The if-chain on the mapped type: SearchAction, ClickAction, TypeAction and
\* SelectAction have a branch, every other type falls to StopAction.
ActionFor(item) ==
    LET t == MappedType(item)
    IN  IF t = "search"
        THEN [kind |-> "action", type |-> t, element_id |-> Missing, reason |-> Missing]
        ELSE IF t \in {"click", "type", "select"}
        THEN [kind |-> "action", type |-> t, element_id |-> Get(item.element_id, ""),
              reason |-> Missing]
        ELSE [kind |-> "action", type |-> "stop", element_id |-> Missing,
              reason |-> Get(item.reason, DefaultStopReason)]

\* The items the loop of act() gets through: those before the first that raises.
RECURSIVE Processed(_)
Processed(items) ==
    IF items = <<>> \/ ItemRaises(Head(items)) THEN 0
    ELSE 1 + Processed(Tail(items))

\* The except branch of act() is taken.
ActFails(resp) == resp.kind = "raise" \/ Processed(resp.actions) < Len(resp.actions)

\* The action entries of the items the loop got through: each is appended right
\* after its action is built. The text stands for the item's description.
RECURSIVE ActMemories(_, _, _, _)
ActMemories(mems, items, count, now) ==
    IF count = 0 THEN mems
    ELSE ActMemories(
             add_memory(mems,
                 MemoryPiece([prefix |-> "Action: ", text |-> Head(items).type],
                             "action", now), now),
             Tail(items), count - 1, now)

\* return actions, or return [] of the except branch.
ActReturn(resp) ==
    IF ActFails(resp) THEN <<>>
    ELSE [i \in 1..Len(resp.actions) |-> ActionFor(resp.actions[i])]

\* act() up to its reasoning call: the state change and the retrieval (which,
\* with no embeddings, changes nothing in the store).
ActCallStep ==
    /\ state' = "acting"
    /\ act_base' = Len(memories)
    /\ UNCHANGED <<current_plan, current_plan_rationale, next_step, plan_pc, attempt,
                   plan_outcomes, plan_installed, plan_ret, plan_calls>>

\* act() from the answer of its reasoning call to its return.
ActReturnStep(resp) ==
    /\ memories' = ActMemories(memories, resp.actions, Processed(resp.actions), timestamp)
    /\ act_ret' = [returned |-> TRUE, response |-> resp, actions |-> ActReturn(resp)]

\* act() called on its own, once, on a fresh agent.
ActCall ==
    /\ tick_pc = "idle"
    /\ ~act_ret.returned
    /\ ActCallStep
    /\ tick_pc' = "acting"
    /\ UNCHANGED <<policy_type, reflection_frequency, gather, fb_arg, last_action, returned,
                   policy_step_count, tick_log, tick_base, tick_start, act_ret,
                   tasks_created>>
    /\ UNCHANGED <<memVars, simVars, envVars, callVars>>

ActAnswer(resp) ==
    /\ tick_pc = "acting"
    /\ ActReturnStep(resp)
    /\ tick_pc' = "idle"
    /\ UNCHANGED <<policy_type, reflection_frequency, gather, fb_arg, last_action, returned,
                   policy_step_count, tick_log, tick_base, tick_start, act_base,
                   tasks_created>>
    /\ UNCHANGED <<embeddings, importance_scores, timestamp, sync, retr, retrieved, bg_pc>>
    /\ UNCHANGED <<planVars, simVars, envVars, callVars>>

NextAct ==
    \/ ActCall
    \/ tick_pc = "acting" /\ \E resp \in ActResponses : ActAnswer(resp)

SpecAct == InitMem /\ [][NextAct]_vars

(***************************************************************************)
(* One tick of a decision policy: AgentPolicy.decide_action under the      *)
(* driver, CognitiveLoopPolicy.decide called on its own                    *)
(***************************************************************************)
\* The policy configurations: the AgentPolicy with its defaults, the
\* CognitiveLoopPolicy reflecting every tick or every third tick.
PolicyConfigs ==
    {[policy_type |-> "agent", reflection_frequency |-> DefaultReflectionFrequency]}
    \cup [policy_type : {"cognitive_loop"},
          reflection_frequency : {1, DefaultReflectionFrequency}]

\* The variables of the agent that plan() and act() leave alone on entry.
planRest == <<current_plan, current_plan_rationale, next_step, plan_pc, attempt,
              plan_outcomes, plan_installed, plan_ret, plan_calls>>

\* The answers the tick's plan() call draws from: a complete plan, with and
\* without a rationale.
TickPlanResponses ==
    {r \in PlanResponses :
        r.plan = "planA" /\ r.rationale \in {"", "why"} /\ r.next_step = "stepA"}

\* An item of the given type, element and reason.
Item(type, element_id, reason) ==
    [shape |-> "object", type |-> type, element_id |-> element_id, reason |-> reason]

\* The answers the tick's act() call draws from: a failure, no item, one item
\* (a click, a back, a stop with a reason), a click followed by a non-object.
TickActResponses ==
    {[kind |-> "raise", actions |-> <<>>]}
    \cup {[kind |-> "json", actions |-> a] :
              a \in {<<>>,
                     <<Item("click", "x", Missing)>>,
                     <<Item("back", Missing, Missing)>>,
                     <<Item("stop", Missing, "r")>>,
                     <<Item("click", "x", Missing), NotAnObject>>}}

FeedbackGate_Always(ptype, ts, la, sc) == TRUE

\* AgentPolicy: if self.agent.memory.timestamp != 0 (the agent has feedback).
\* CognitiveLoopPolicy: if self.last_action and self.step_count > 0.
FeedbackGate(ptype, ts, la, sc) ==
    IF ptype = "agent" THEN ts # 0
    ELSE la # NoAction /\ sc > 0

\* AgentPolicy awaits asyncio.gather(feedback(...), perceive(...)): both calls
\* run concurrently, feedback started first. CognitiveLoopPolicy awaits
\* perceive, then feedback.
InParallel(ptype) == ptype = "agent"

CreatesTask_Always(pc) == TRUE

\* if self.slow_loop_task is None and self.enable_reflection (the default)
CreatesTask(pc) == pc = "unstarted"

\* if self.step_count % self.reflection_frequency == 0 and self.step_count > 0
ReflectGate(sc, freq) == sc % freq = 0 /\ sc > 0

\* The stop action of the except branch of decide_action.
AgentErrorStop ==
    [kind |-> "action", type |-> "stop", element_id |-> Missing, reason |-> "Agent error"]

\* Action(type=ActionType.STOP, parameters={"reason": "No action from agent"}),
\* StopAction(reason="No valid actions available")
NoActionStop(ptype) ==
    [kind |-> "action", type |-> "stop", element_id |-> Missing,
     reason |-> IF ptype = "agent" THEN "No action from agent"
                ELSE "No valid actions available"]

Decision_FirstOrClick(ptype, actions) ==
    IF actions # <<>> THEN actions[1]
    ELSE [kind |-> "action", type |-> "click", element_id |-> "x", reason |-> Missing]

\* actions[0] if actions else the stop action
Decision(ptype, actions) ==
    IF actions # <<>> THEN actions[1] ELSE NoActionStop(ptype)

NextTickCount_ByTwo(ts) == ts + 2

\* self.agent.memory.timestamp += 1
NextTickCount(ts) == ts + 1

GatherOver_PerceiveOnly(g) == g.perceive = "done"

\* The await of the gather (or of perceive, then feedback) is over: every call
\* that was made has returned.
GatherOver(g) == g.perceive = "done" /\ g.feedback \in {"none", "done"}

\* decide_action / decide is called: up to the first suspension point of
\* perceive() (and, in the gather, of feedback(), which is started first).
TickBegin ==
    /\ tick_pc = "idle"
    /\ plan_calls < MaxPlanCalls
    /\ policy_type = "agent" =>
           sim_pc = "loop" /\ LoopCondition(step_count, max_steps, is_running)
    /\ LET both == /\ InParallel(policy_type)
                   /\ FeedbackGate(policy_type, timestamp, last_action, policy_step_count)
       IN  /\ gather' = [feedback |-> IF both THEN "awaiting" ELSE "none",
                         perceive |-> "awaiting"]
           /\ fb_arg' = IF both THEN last_action ELSE NoAction
           /\ tick_log' = IF both THEN <<"feedback_start", "perceive_start">>
                          ELSE <<"perceive_start">>
    /\ state' = "perceiving"
    /\ tick_pc' = "gather"
    /\ tick_base' = Len(memories)
    /\ tick_start' = timestamp
    /\ act_ret' = NoActResult
    /\ UNCHANGED <<policy_type, reflection_frequency, last_action, returned,
                   policy_step_count, act_base, tasks_created>>
    /\ UNCHANGED planRest
    /\ UNCHANGED <<memVars, simVars, envVars, callVars>>

\* perceive() from the answer of its reasoning call to its return: one
\* observation entry per perception (none when the call failed). In
\* CognitiveLoopPolicy the feedback() call, if any, starts then.
PerceiveReturn(count) ==
    /\ tick_pc = "gather"
    /\ gather.perceive = "awaiting"
    /\ memories' = AddAll(memories, "observation", count, timestamp)
    /\ LET then == /\ ~InParallel(policy_type)
                   /\ FeedbackGate(policy_type, timestamp, last_action, policy_step_count)
           fb == IF then THEN "awaiting" ELSE gather.feedback
       IN  /\ gather' = [feedback |-> fb, perceive |-> "done"]
           /\ fb_arg' = IF then THEN last_action ELSE fb_arg
           /\ tick_log' = IF then THEN tick_log \o <<"perceive_end", "feedback_start">>
                          ELSE Append(tick_log, "perceive_end")
           /\ tick_pc' = IF GatherOver(gather') THEN "plan" ELSE "gather"
    /\ UNCHANGED <<policy_type, reflection_frequency, last_action, returned,
                   policy_step_count, tick_base, tick_start, act_base, act_ret,
                   tasks_created>>
    /\ UNCHANGED <<embeddings, importance_scores, timestamp, sync, retr, retrieved, bg_pc>>
    /\ UNCHANGED <<planVars, simVars, envVars, callVars>>

\* feedback() from the answer of its reasoning call to its return: one thought
\* entry per thought (none when the call failed).
FeedbackReturn(count) ==
    /\ tick_pc = "gather"
    /\ gather.feedback = "awaiting"
    /\ memories' = AddAll(memories, "thought", count, timestamp)
    /\ gather' = [gather EXCEPT !.feedback = "done"]
    /\ tick_log' = Append(tick_log, "feedback_end")
    /\ tick_pc' = IF GatherOver(gather') THEN "plan" ELSE "gather"
    /\ UNCHANGED <<policy_type, reflection_frequency, fb_arg, last_action, returned,
                   policy_step_count, tick_base, tick_start, act_base, act_ret,
                   tasks_created>>
    /\ UNCHANGED <<embeddings, importance_scores, timestamp, sync, retr, retrieved, bg_pc>>
    /\ UNCHANGED <<planVars, simVars, envVars, callVars>>

\* After the gather: AgentPolicy creates its background task if it has none,
\* then plan() is called and runs up to its first reasoning call.
TickPlanCall ==
    /\ tick_pc = "plan"
    /\ PlanCallStep
    /\ LET creates == policy_type = "agent" /\ CreatesTask(bg_pc)
       IN  /\ bg_pc' = IF creates THEN "reflect" ELSE bg_pc
           /\ tasks_created' = IF creates THEN tasks_created + 1 ELSE tasks_created
    /\ tick_log' = Append(tick_log, "plan_start")
    /\ tick_pc' = "planning"
    /\ UNCHANGED <<policy_type, reflection_frequency, gather, fb_arg, last_action,
                   returned, policy_step_count, tick_base, tick_start, act_base, act_ret>>
    /\ UNCHANGED <<memories, embeddings, importance_scores, timestamp, sync, retr,
                   retrieved>>
    /\ UNCHANGED <<simVars, envVars, callVars>>

\* One attempt of the tick's plan() call; the last one ends the call.
TickPlanAttempt(resp) ==
    /\ tick_pc = "planning"
    /\ PlanAttemptStep(resp)
    /\ tick_pc' = IF plan_pc' = "returned" THEN "planned" ELSE "planning"
    /\ tick_log' = IF plan_pc' = "returned" THEN Append(tick_log, "plan_end") ELSE tick_log
    /\ UNCHANGED <<policy_type, reflection_frequency, gather, fb_arg, last_action,
                   returned, policy_step_count, tick_base, tick_start, act_base, act_ret,
                   tasks_created>>
    /\ UNCHANGED <<simVars, envVars, callVars>>

\* CognitiveLoopPolicy.decide: the periodic reflect() call, up to its reasoning
\* call (the store is not empty: plan() has appended to it).
TickReflectCall ==
    /\ tick_pc = "planned"
    /\ policy_type = "cognitive_loop"
    /\ ReflectGate(policy_step_count, reflection_frequency)
    /\ state' = "reflecting"
    /\ tick_log' = Append(tick_log, "reflect_start")
    /\ tick_pc' = "reflecting"
    /\ UNCHANGED <<policy_type, reflection_frequency, gather, fb_arg, last_action,
                   returned, policy_step_count, tick_base, tick_start, act_base, act_ret,
                   tasks_created>>
    /\ UNCHANGED planRest
    /\ UNCHANGED <<memVars, simVars, envVars, callVars>>

\* ... and from the answer to its return: one reflection entry per insight.
TickReflectReturn(insights) ==
    /\ tick_pc = "reflecting"
    /\ memories' = AddAll(memories, "reflection", insights, timestamp)
    /\ tick_log' = Append(tick_log, "reflect_end")
    /\ tick_pc' = "reflected"
    /\ UNCHANGED <<policy_type, reflection_frequency, gather, fb_arg, last_action,
                   returned, policy_step_count, tick_base, tick_start, act_base, act_ret,
                   tasks_created>>
    /\ UNCHANGED <<embeddings, importance_scores, timestamp, sync, retr, retrieved, bg_pc>>
    /\ UNCHANGED <<planVars, simVars, envVars, callVars>>

\* act() is called and runs up to its reasoning call.
TickActCall ==
    /\ \/ tick_pc = "reflected"
       \/ /\ tick_pc = "planned"
          /\ ~(/\ policy_type = "cognitive_loop"
               /\ ReflectGate(policy_step_count, reflection_frequency))
    /\ ActCallStep
    /\ tick_log' = Append(tick_log, "act_start")
    /\ tick_pc' = "acting"
    /\ UNCHANGED <<policy_type, reflection_frequency, gather, fb_arg, last_action,
                   returned, policy_step_count, tick_base, tick_start, act_ret,
                   tasks_created>>
    /\ UNCHANGED <<memVars, simVars, envVars, callVars>>

\* act() returns and the call ends. AgentPolicy: saving the agent state and the
\* traces may raise (saved is FALSE), which the except branch answers with a
\* stop action; else the first action, or a stop action when there is none, is
\* stored as last_action, the tick is counted and the action is returned to
\* the driver, which records the step. CognitiveLoopPolicy: the same choice,
\* then update_memory() (over at once while the arrays are None), the tick is
\* counted and the action returned to the caller.
TickActReturn(resp, saved) ==
    /\ tick_pc = "acting"
    /\ policy_type = "cognitive_loop" =>
           saved /\ SyncEnter(embeddings, memories).pc = "idle"
    /\ ActReturnStep(resp)
    /\ tick_log' = Append(tick_log, "act_end")
    /\ tick_pc' = "idle"
    /\ LET d == Decision(policy_type, ActReturn(resp))
           out == IF saved THEN d ELSE AgentErrorStop
       IN  /\ last_action' = IF saved THEN d ELSE last_action
           /\ timestamp' = IF saved THEN NextTickCount(timestamp) ELSE timestamp
           /\ policy_step_count' = IF saved THEN policy_step_count + 1
                                   ELSE policy_step_count
           /\ returned' = out
           /\ IF policy_type = "agent" THEN DecideStep(out) ELSE UNCHANGED simVars
    /\ UNCHANGED <<policy_type, reflection_frequency, gather, fb_arg, tick_base,
                   tick_start, act_base, tasks_created>>
    /\ UNCHANGED <<embeddings, importance_scores, sync, retr, retrieved, bg_pc>>
    /\ UNCHANGED <<planVars, envVars, callVars>>

\* CognitiveLoopPolicy.reset(), between two decide calls.
PolicyReset ==
    /\ policy_type = "cognitive_loop"
    /\ tick_pc = "idle"
    /\ last_action' = NoAction
    /\ policy_step_count' = 0
    /\ timestamp' = 0
    /\ UNCHANGED <<policy_type, reflection_frequency, tick_pc, gather, fb_arg, returned,
                   tick_log, tick_base, tick_start, act_base, act_ret, tasks_created>>
    /\ UNCHANGED <<memories, embeddings, importance_scores, sync, retr, retrieved, bg_pc>>
    /\ UNCHANGED <<planVars, simVars, envVars, callVars>>

\* The run of the driver is one with an AgentPolicy.
TickRunBegin == policy_type = "agent" /\ RunBegin("run_with_persona")

\* A constructed Simulation, agent and policy. The run of an AgentPolicy may
\* take as many steps as there are plan() calls; the CognitiveLoopPolicy is used
\* without the driver, which calls decide_action, not decide.
InitTick ==
    /\ InitSimulation /\ InitPlanCall /\ InitAgent /\ InitCapability /\ InitPolicyState /\ InitCalls
    /\ \E c \in PolicyConfigs :
           /\ policy_type = c.policy_type
           /\ reflection_frequency = c.reflection_frequency
    /\ max_steps = IF policy_type = "agent" THEN MaxPlanCalls ELSE 0
    /\ memories = <<>>
    /\ embeddings = NoArray
    /\ importance_scores = NoArray
    /\ timestamp = 0
    /\ sync = [c \in Callers |-> NoSync]
    /\ retr = NoCall
    /\ retrieved = NoRetrieval
    /\ bg_pc = "unstarted"

NextTick ==
    \/ TickRunBegin
    \/ \E ok \in BOOLEAN : Setup(ok)
    \/ LoopExit
    \/ TickBegin
    \/ \E count \in 0..1 : PerceiveReturn(count)
    \/ \E count \in 0..1 : FeedbackReturn(count)
    \/ TickPlanCall
    \/ \E resp \in TickPlanResponses : TickPlanAttempt(resp)
    \/ TickReflectCall
    \/ \E insights \in 0..MaxInsights : TickReflectReturn(insights)
    \/ TickActCall
    \/ \E resp \in TickActResponses, saved \in BOOLEAN : TickActReturn(resp, saved)
    \/ PolicyReset
    \/ \E o \in {"ok", "raise"} : EnvStep(o)
    \/ Finalize
    \/ Teardown
    \/ BgReflectCall
    \/ \E insights \in 0..MaxInsights : BgReflectReturn(insights)
    \/ \E ev \in {"call"} \cup SyncEvents : BgUpdateMemory(ev)
    \/ BgSleep

SpecTick == InitTick /\ [][NextTick]_vars

(***************************************************************************)
(* Single calls of perceive / feedback / reflect, seen from their caller   *)
(***************************************************************************)
\* The largest number of items of a listing response.
MaxItems == 2

\* Agent.perceive, Agent.feedback, Agent.reflect: each asks the chat capability
\* for a JSON list and stores its items.
ListingOps == {"perceive", "feedback", "reflect"}

\* memory_type of the entries the operation stores.
KindOf(op) ==
    CASE op = "perceive" -> "observation"
      [] op = "feedback" -> "thought"
      [] op = "reflect" -> "reflection"

\* The items of a listing response: a JSON string or null.
ItemValues == {"m", NoneVal}

\* The outcomes of the chat call: it raises, or answers a JSON object whose
\* list holds these items (an object without the key counts as the empty list).
ListingResponses ==
    {[kind |-> "raise", items |-> <<>>]}
        \cup {[kind |-> "json", items |-> s] :
                 s \in UNION {[1..n -> ItemValues] : n \in 0..MaxItems}}

\* Memory.add_memory, after the append: memory.content[:100] in the log line
\* raises TypeError on a content that is no string.
AddMemoryRaises(content) == ~Sliceable(content)

\* for item in items: await self.memory.add_memory(MemoryPiece(item, kind, now));
\* the loop ends where add_memory raises, the entry of that item being appended.
RECURSIVE AddItems(_, _, _, _)
AddItems(mems, kind, items, now) ==
    IF items = <<>> THEN mems
    ELSE LET appended ==
                 add_memory(mems, MemoryPiece([prefix |-> "", text |-> Head(items)], kind, now),
                            now)
         IN  IF AddMemoryRaises(Head(items)) THEN appended
             ELSE AddItems(appended, kind, Tail(items), now)

\* add_memory raises for one of the items.
ItemsRaise(items) == \E i \in 1..Len(items) : AddMemoryRaises(items[i])

\* reflect() returns [] without a chat call while the store is empty.
NothingToReflectOn(op, mems) == op = "reflect" /\ mems = <<>>

\* What the operation returns: the list of the response, or [] from its except
\* branch.
ListingReturn(resp) ==
    IF resp.kind = "raise" \/ ItemsRaise(resp.items) THEN <<>> ELSE resp.items

\* One whole call of perceive(), feedback() or reflect().
ListingCall(op, resp) ==
    /\ Len(memories) <= MaxItems
    /\ state' = CASE op = "perceive" -> "perceiving"
                  [] op = "reflect" -> "reflecting"
                  [] op = "feedback" -> state
    /\ IF NothingToReflectOn(op, memories)
       THEN /\ op_ret' = [op |-> op, response |-> "none", value |-> <<>>]
            /\ UNCHANGED <<memories, raised>>
       ELSE /\ memories' = AddItems(memories, KindOf(op), resp.items, timestamp)
            /\ op_ret' = [op |-> op, response |-> resp.kind, value |-> ListingReturn(resp)]
            /\ raised' = IF ItemsRaise(resp.items) THEN raised \cup {"add_memory"} ELSE raised
    /\ UNCHANGED <<embeddings, importance_scores, timestamp, sync, retr, retrieved, bg_pc>>
    /\ UNCHANGED <<current_plan, current_plan_rationale, next_step, plan_pc, attempt,
                   plan_outcomes, plan_installed, plan_ret, plan_calls>>
    /\ UNCHANGED <<simVars, envVars, policyVars, voteVars, compareVars, retryVars, lifeVars>>

NextCalls == \E op \in ListingOps, resp \in ListingResponses : ListingCall(op, resp)

SpecCalls == InitMem /\ [][NextCalls]_vars


(***************************************************************************)
(* CompositeRelevanceClassifier.is_relevant                                *)
(***************************************************************************)
\* The largest number of member classifiers.
MaxClassifiers == 3

\* The strategies a composite can be configured with; "weighted" stands for any
\* string that is none of the three known ones.
VotingStrategies == {"majority", "unanimous", "any", "weighted"}

\* sum(results): True counts 1, False counts 0.
RECURSIVE Sum(_)
Sum(votes) ==
    IF votes = <<>> THEN 0
    ELSE (IF Head(votes) THEN 1 ELSE 0) + Sum(Tail(votes))

\* all(results), any(results).
AllTrue(votes) == \A i \in 1..Len(votes) : votes[i]
AnyTrue(votes) == \E i \in 1..Len(votes) : votes[i]

Majority_HalfSuffices(votes) == 2 * Sum(votes) >= Len(votes)

\* sum(results) > len(results) / 2, the division being exact.
Majority(votes) == 2 * Sum(votes) > Len(votes)

\* The value is_relevant returns for the collected results.
Combine(strategy, votes) ==
    CASE strategy = "majority" -> Majority(votes)
      [] strategy = "unanimous" -> AllTrue(votes)
      [] strategy = "any" -> AnyTrue(votes)
      [] OTHER -> Majority(votes)

\* for classifier in self.classifiers: results.append(await classifier.is_relevant(...))
AskMember ==
    /\ ~verdict.returned
    /\ Len(vote_results) < Len(classifiers)
    /\ vote_results' = Append(vote_results, classifiers[Len(vote_results) + 1])
    /\ UNCHANGED <<classifiers, voting_strategy, verdict>>
    /\ UNCHANGED <<memVars, planVars, simVars, envVars, policyVars, listingVars, compareVars, retryVars, lifeVars>>

\* The return statement after the loop.
Vote ==
    /\ ~verdict.returned
    /\ Len(vote_results) = Len(classifiers)
    /\ verdict' = [returned |-> TRUE, value |-> Combine(voting_strategy, vote_results)]
    /\ UNCHANGED <<classifiers, voting_strategy, vote_results>>
    /\ UNCHANGED <<memVars, planVars, simVars, envVars, policyVars, listingVars, compareVars, retryVars, lifeVars>>

\* A composite of 0..MaxClassifiers members with any votes and any strategy, its
\* is_relevant call about to start.
InitComposite ==
    /\ classifiers \in UNION {[1..k -> BOOLEAN] : k \in 0..MaxClassifiers}
    /\ voting_strategy \in VotingStrategies
    /\ vote_results = <<>>
    /\ verdict = NoVerdict

InitVote ==
    /\ InitAgent /\ InitMemory /\ InitPlanCall /\ IdleSimulation /\ InitCapability
    /\ InitPolicy /\ InitListing /\ InitComposite /\ InitNoDrive /\ InitRetry /\ InitLife

NextVote == AskMember \/ Vote

SpecVote == InitVote /\ [][NextVote]_vars


(***************************************************************************)
(* run and run_with_persona driven by the same script                      *)
(***************************************************************************)
\* The actions a scripted policy returns and the outcomes a scripted environment
\* gives; the stop action of a script carries no reason.
ScriptDecisions == {d \in Decisions : d.reason = Missing}

\* The scripts: max_steps, and one policy decision and one environment outcome
\* for each step the loop can make.
Scripts ==
    UNION {[max_steps : {ms}, decisions : [1..ms -> ScriptDecisions],
            responses : [1..ms -> StepOutcomes]] : ms \in 0..MaxSteps}

\* The step loop of run (simulation.py 324-368) and of run_with_persona
\* (189-233), started with is_running set: the counter and the audit trail it
\* leaves, the policy answering ds and the environment os.
RECURSIVE StepLoop(_, _, _, _, _)
StepLoop(sc, ms, res, ds, os) ==
    IF ~LoopCondition(sc, ms, TRUE) \/ ds = <<>>
    THEN [step_count |-> sc, results |-> res]
    ELSE LET d == Head(ds)
         IN  IF d.kind = "raise"
             THEN [step_count |-> sc, results |-> Append(res, ErrorResult(sc))]
             ELSE IF IsStop(d)
             THEN [step_count |-> sc,
                   results |-> Append(res, [StepResult(sc, d) EXCEPT
                                                !.stop_reason = StopReason(d)])]
             ELSE IF Head(os) = "raise"
             THEN [step_count |-> sc, results |-> Append(res, ErrorResult(sc))]
             ELSE StepLoop(sc + 1, ms,
                           Append(res, IF Head(os) = "error_message"
                                       THEN [StepResult(sc, d) EXCEPT
                                                 !.error = "environment error"]
                                       ELSE StepResult(sc, d)),
                           Tail(ds), Tail(os))

\* What method m returns for the script on a newly constructed Simulation.
RunScript(m, script) ==
    LET end == StepLoop(0, script.max_steps, <<>>, script.decisions, script.responses)
    IN  FinalResults(m, end.step_count, script.max_steps, end.results)

\* Method m is run on the script.
RunScripted(m) ==
    /\ reported[m] = NoResults
    /\ reported' = [reported EXCEPT ![m] = RunScript(m, drive)]
    /\ UNCHANGED drive
    /\ UNCHANGED <<memVars, planVars, simVars, envVars, policyVars, listingVars, voteVars, retryVars, lifeVars>>

InitDrive ==
    /\ drive \in Scripts
    /\ reported = NotReported

InitCompare ==
    /\ InitAgent /\ InitMemory /\ InitPlanCall /\ IdleSimulation /\ InitCapability
    /\ InitPolicy /\ InitListing /\ InitNoClassifiers /\ InitDrive /\ InitRetry /\ InitLife

NextCompare == \E m \in RunMethods : RunScripted(m)

SpecCompare == InitCompare /\ [][NextCompare]_vars


(***************************************************************************)
(* async_retry: one call of a wrapped capability                           *)
(***************************************************************************)
\* def async_retry(times=10), and max_wait = 5 of the wrapper.
times == 10
max_wait == 5

\* What one invocation of the wrapped function can give: a result or an
\* exception.
InvocationOutcomes ==
    [kind : {"result"}, value : {"r1", "r2"}] \cup [kind : {"exception"}, value : {"e1", "e2"}]

Min(a, b) == IF a <= b THEN a ELSE b

NextWait_Uncapped(w) == w * 2

\* wait = min(wait * 2, max_wait)
NextWait(w) == Min(w * 2, max_wait)

\* The wrapper is called: wait = 1, last_exception = None, the loop begins.
RetryCall ==
    /\ retry_pc = "idle"
    /\ wait' = 1
    /\ last_exception' = NoneVal
    /\ retry_attempt' = 0
    /\ retry_pc' = IF 0 < times THEN "invoking" ELSE "raised"
    /\ UNCHANGED <<invoked, sleeps, retry_ret>>
    /\ UNCHANGED <<memVars, planVars, simVars, envVars, policyVars, listingVars, voteVars,
                   compareVars, lifeVars>>

\* return await f(*args, **kwargs), or the except branch up to its sleep.
Invoke(out) ==
    /\ retry_pc = "invoking"
    /\ invoked' = Append(invoked, out)
    /\ IF out.kind = "result"
       THEN /\ retry_ret' = out
            /\ retry_pc' = "returned"
            /\ UNCHANGED last_exception
       ELSE /\ last_exception' = out.value
            /\ retry_pc' = "sleeping"
            /\ UNCHANGED retry_ret
    /\ UNCHANGED <<retry_attempt, wait, sleeps>>
    /\ UNCHANGED <<memVars, planVars, simVars, envVars, policyVars, listingVars, voteVars,
                   compareVars, lifeVars>>

\* await asyncio.sleep(wait) returns: the delay is doubled up to max_wait and
\* the loop goes on, or it is over and the last exception is raised.
Sleep ==
    /\ retry_pc = "sleeping"
    /\ sleeps' = Append(sleeps, wait)
    /\ wait' = NextWait(wait)
    /\ retry_attempt' = retry_attempt + 1
    /\ IF retry_attempt + 1 < times
       THEN retry_pc' = "invoking" /\ UNCHANGED retry_ret
       ELSE /\ retry_pc' = "raised"
            /\ retry_ret' = [kind |-> "exception", value |-> last_exception]
    /\ UNCHANGED <<last_exception, invoked>>
    /\ UNCHANGED <<memVars, planVars, simVars, envVars, policyVars, listingVars, voteVars,
                   compareVars, lifeVars>>

InitRetryCall ==
    /\ InitAgent /\ InitMemory /\ InitPlanCall /\ IdleSimulation /\ InitCapability
    /\ InitPolicy /\ InitCalls

NextRetry ==
    \/ RetryCall
    \/ \E out \in InvocationOutcomes : Invoke(out)
    \/ Sleep

SpecRetry == InitRetryCall /\ [][NextRetry]_vars


(***************************************************************************)
(* A Simulation object on which a run method is called again               *)
(***************************************************************************)
\* The largest number of run calls on one Simulation object.
MaxRuns == 2

\* run / run_with_persona is called on an object whose earlier call has ended:
\* is_running is set; neither method assigns step_count or results before its
\* loop (simulation.py 157-189, 300-324), so both keep what the earlier call
\* left. The records of the call (its decisions, submissions, return value)
\* start empty.
RunAgain(m) ==
    /\ sim_pc \in {"returned", "raised"}
    /\ earlier_runs + 1 < MaxRuns
    /\ earlier_runs' = earlier_runs + 1
    /\ method' = m
    /\ is_running' = TRUE
    /\ sim_pc' = "setup"
    /\ action' = NoAction
    /\ step_result' = NoEntry
    /\ decision_log' = <<>>
    /\ submitted' = <<>>
    /\ loop_end' = "none"
    /\ final_results' = NoResults
    /\ policy_cleaned' = FALSE
    /\ env_closed' = FALSE
    /\ UNCHANGED <<max_steps, step_count, results>>
    /\ UNCHANGED <<memVars, planVars, envVars, policyVars>>
    /\ UNCHANGED <<listingVars, voteVars, compareVars, retryVars, stop_requested>>

NextReuse ==
    \/ \E m \in RunMethods : RunBegin(m)
    \/ \E m \in RunMethods : RunAgain(m)
    \/ \E ok \in BOOLEAN : Setup(ok)
    \/ LoopExit
    \/ \E d \in Decisions : Decide(d)
    \/ \E o \in StepOutcomes : EnvStep(o)
    \/ Finalize
    \/ Finally

SpecReuse == InitRun /\ [][NextReuse]_vars


(***************************************************************************)
(* Simulation.stop() during a run                                          *)
(***************************************************************************)
StopFlag_Ignored(running) == running

\* self.is_running = False
StopFlag(running) == FALSE

\* Simulation.stop() is called from outside while the step loop of the run is
\* in progress: between two steps, or while the step's environment call is
\* awaited.
Stop ==
    /\ sim_pc \in {"loop", "stepping"}
    /\ ~stop_requested
    /\ is_running' = StopFlag(is_running)
    /\ stop_requested' = TRUE
    /\ UNCHANGED <<max_steps, step_count, results, method, sim_pc, action, step_result,
                   decision_log, submitted, loop_end, final_results, policy_cleaned,
                   env_closed>>
    /\ UNCHANGED <<memVars, planVars, envVars, policyVars>>
    /\ UNCHANGED <<listingVars, voteVars, compareVars, retryVars, earlier_runs>>

\* The steps of the run's own coroutine.
DriverStep ==
    \/ \E ok \in BOOLEAN : Setup(ok)
    \/ LoopExit
    \/ \E d \in Decisions, outcome \in PolicyOutcomes, perceived \in 0..1 :
           PolicyDecide(d, outcome, perceived)
    \/ \E o \in StepOutcomes : EnvStep(o)
    \/ Finalize
    \/ Teardown

NextStop ==
    \/ \E m \in RunMethods : RunBegin(m)
    \/ \E ok \in BOOLEAN : Setup(ok)
    \/ LoopExit
    \/ \E d \in Decisions, outcome \in PolicyOutcomes, perceived \in 0..1 :
           PolicyDecide(d, outcome, perceived)
    \/ \E o \in StepOutcomes : EnvStep(o)
    \/ Finalize
    \/ Teardown
    \/ Stop
    \/ BgReflectCall
    \/ \E insights \in 0..MaxInsights : BgReflectReturn(insights)
    \/ \E ev \in {"call"} \cup SyncEvents : BgUpdateMemory(ev)
    \/ BgSleep

SpecStop == InitTeardown /\ [][NextStop]_vars

\* The event loop resumes the run's coroutine whenever it is ready, whatever the
\* background task does; stop() need never be called.
FairSpecStop == SpecStop /\ WF_vars(DriverStep)


(***************************************************************************)
(* Claims about Agent.plan (checked under SpecPlan)                        *)
(***************************************************************************)
\* A call of plan() in which none of the 3 attempts was accepted.
AllAttemptsFailed ==
    /\ plan_pc = "returned"
    /\ Len(plan_outcomes) = max_retries
    /\ \A i \in 1..Len(plan_outcomes) : plan_outcomes[i] \in {"raise", "incomplete"}

HoldsFallback ==
    /\ current_plan = FallbackPlan
    /\ current_plan_rationale = FallbackRationale
    /\ next_step = FallbackNextStep

\* C1: when each of the 3 planning attempts raised or returned JSON lacking one
\* of plan/rationale/next_step, the controller holds the fallback triple when
\* plan() returns.
C1_FallbackAfterThreeFailures == AllAttemptsFailed => HoldsFallback

\* The fields of the agent that plan() installs.
PlanFields == <<current_plan, current_plan_rationale, next_step>>

\* The attempts of the call made so far, the last one left out.
EarlierAttempts == 1..(Len(plan_outcomes) - 1)

\* C31: a plan() call makes at most 3 reasoning calls; a complete response ends
\* it, so only the last attempt can be complete, and its three values are the
\* ones installed; the fields change only in a step whose response is complete
\* (or in the third, raising, attempt, which installs the fallback), and an
\* installed response has all three keys.
C31_PlanningRetries ==
    /\ [](/\ Len(plan_outcomes) <= max_retries
          /\ \A i \in EarlierAttempts : plan_outcomes[i] # "complete"
          /\ plan_installed.kind = "json" =>
                 /\ \A k \in PlanKeys : plan_installed[k] # Missing
                 /\ plan_outcomes[Len(plan_outcomes)] = "complete"
                 /\ PlanFields = <<plan_installed.plan, plan_installed.rationale,
                                   plan_installed.next_step>>)
    /\ [][PlanFields' # PlanFields =>
              \/ plan_outcomes'[Len(plan_outcomes')] = "complete"
              \/ /\ plan_outcomes'[Len(plan_outcomes')] = "raise"
                 /\ Len(plan_outcomes') = max_retries]_vars

\* A call whose first answer missed a key and whose second was complete, and
\* installed.
C31_Witness ==
    /\ plan_pc = "returned"
    /\ plan_outcomes = <<"incomplete", "complete">>
    /\ plan_installed.plan = "planB"
    /\ current_plan = "planB"

\* The entries of a kind.
OfKind(kind) == {i \in 1..Len(memories) : memories[i].memory_type = kind}

\* The plan() calls that have returned.
PlanCallsReturned == IF plan_pc = "attempting" THEN plan_calls - 1 ELSE plan_calls

\* The entry holds the plan in force / the rationale in force.
IsPlanEntry(m) ==
    m.memory_type = "plan" /\ m.content = [prefix |-> "Plan: ", text |-> current_plan]
IsRationaleEntry(m) ==
    m.memory_type = "thought" /\ m.content = [prefix |-> "", text |-> current_plan_rationale]

\* C32: the store holds one plan entry per plan() call that has returned; when
\* a call has returned, the store ends with the plan entry of the plan in force,
\* followed by a thought entry of the rationale exactly when the rationale is
\* neither None nor empty.
C32_PlanMemory ==
    /\ Cardinality(OfKind("plan")) = PlanCallsReturned
    /\ plan_pc = "returned" =>
           LET last == Len(memories)
           IN  IF current_plan_rationale \in {NoneVal, ""}
               THEN IsPlanEntry(memories[last])
               ELSE /\ last >= 2
                    /\ IsPlanEntry(memories[last - 1])
                    /\ IsRationaleEntry(memories[last])

\* Two calls have returned: the first accepted a plan with an empty rationale
\* (one entry), the second used the fallback (two entries).
C32_Witness ==
    /\ plan_pc = "returned"
    /\ plan_calls = 2
    /\ Len(memories) = 3
    /\ memories[1].memory_type = "plan"
    /\ current_plan = FallbackPlan
    /\ IsRationaleEntry(memories[3])

\* C38: the string plan() returns is the current_plan the controller holds
\* after the call.
C38_ResultAgreesWithContext == plan_pc = "returned" => plan_ret = current_plan

(***************************************************************************)
(* Claims about the simulation driver (checked under SpecRun, C4 under     *)
(* FairSpecRun)                                                            *)
(***************************************************************************)
Ended == sim_pc \in {"returned", "raised"}

\* The audit entries that are error entries of the except branch.
ErrorEntries == {i \in 1..Len(results) : results[i].action = Missing}

PolicyStopped == \E i \in 1..Len(decision_log) : decision_log[i] = "stop"
StepRaised ==
    \/ \E i \in 1..Len(decision_log) : decision_log[i] = "raise"
    \/ \E i \in 1..Len(submitted) : submitted[i].outcome = "raise"

\* C2: a run whose step loop ended on a caught per-step exception reports a
\* status different from the one a run ended by a stop action reports (step
\* counter below max_steps) and from the one a run that reached max_steps
\* reports (step counter equal to max_steps).
C2_ErrorStatusIsDistinct ==
    (sim_pc = "returned" /\ loop_end = "error")
        => \A ms \in 1..(MaxSteps + 1) : \A sc \in 0..ms :
               final_results.status # FinalStatus(method, sc, ms)

\* C3: for max_steps >= 1, a run whose policy returns stop on its first
\* decision ends with exactly one audit entry, which carries a stop reason,
\* without any Environment.step call and with the stopped-by-agent status
\* ("completed"; run() has no status and reports completed = True).
C3_StopOnFirstDecision ==
    (sim_pc = "returned" /\ max_steps >= 1
        /\ Len(decision_log) >= 1 /\ decision_log[1] = "stop")
        => /\ Len(final_results.steps) = 1
           /\ final_results.steps[1].stop_reason # Missing
           /\ final_results.steps[1].action = "stop"
           /\ submitted = <<>>
           /\ final_results.completed
           /\ method = "run_with_persona" => final_results.status = "completed"

C3_Witness ==
    /\ sim_pc = "returned"
    /\ method = "run_with_persona"
    /\ max_steps >= 2
    /\ decision_log = <<"stop">>
    /\ Len(results) = 1

C5_StopEndsLoop ==
    /\ [](\A i \in 1..Len(submitted) : submitted[i].type # "stop")
    /\ [](\A i \in 1..Len(decision_log) : decision_log[i] = "stop"
            => /\ i = Len(decision_log)
               /\ loop_end = "stop"
               /\ Len(submitted) = i - 1
               /\ Len(results) = i
               /\ results[i].action = "stop"
               /\ results[i].stop_reason # Missing
               /\ results[i].step = i)
    /\ [][loop_end = "stop"
            => /\ decision_log' = decision_log
               /\ submitted' = submitted
               /\ results' = results]_vars

C5_Witness ==
    /\ sim_pc = "returned"
    /\ loop_end = "stop"
    /\ Len(decision_log) >= 2
    /\ Len(submitted) >= 1

\* C6: when the policy decision or Environment.step raises inside the loop,
\* the driver appends exactly one error entry (step index and error text),
\* makes no further policy decision or environment call (no retry), and the
\* call still returns the final results with the audit trail.
C6_ErrorEndsLoop ==
    /\ [](StepRaised
            => /\ loop_end = "error"
               /\ Cardinality(ErrorEntries) = 1
               /\ Len(results) \in ErrorEntries
               /\ results[Len(results)].step = step_count + 1
               /\ results[Len(results)].error # Missing)
    /\ [](~StepRaised => ErrorEntries = {})
    /\ [][StepRaised
            => /\ decision_log' = decision_log
               /\ submitted' = submitted
               /\ results' = results]_vars
    /\ []((StepRaised /\ Ended)
            => /\ sim_pc = "returned"
               /\ final_results.steps = results
               /\ final_results.total_steps = step_count)

C6_Witness ==
    /\ sim_pc = "returned"
    /\ loop_end = "error"
    /\ Len(submitted) >= 2
    /\ submitted[Len(submitted)].outcome = "raise"

\* C7: every invocation of run / run_with_persona, whatever fails, yields a
\* result that contains a final status from {completed-by-stop,
\* max-steps-reached, error} and the full audit trail.
C7_AlwaysYieldsResult ==
    Ended => /\ sim_pc = "returned"
             /\ final_results.status \in {"completed", "max_steps_reached", "error"}
             /\ final_results.steps = results

\* C35: the audit entries of a run carry the step indices 1, 2, 3, ... in order;
\* an entry is appended no later than the counter is incremented for it; a run
\* ended by a stop action or a per-step error at step k reports total_steps =
\* k - 1 with k entries, and a run that reached max_steps reports total_steps
\* equal to the number of entries.
C35_AuditTrailVersusCounter ==
    /\ [](/\ \A i \in 1..Len(results) : results[i].step = i
          /\ step_count <= Len(results)
          /\ Len(results) <= step_count + 1)
    /\ [][step_count' # step_count
            => /\ step_count' = step_count + 1
               /\ Len(results') = step_count']_vars
    /\ []((sim_pc = "returned" /\ loop_end \in {"stop", "error"})
            => /\ Len(final_results.steps) >= 1
               /\ final_results.total_steps = Len(final_results.steps) - 1)
    /\ []((sim_pc = "returned" /\ loop_end = "max_steps")
            => final_results.total_steps = Len(final_results.steps))

\* A run ended by an exception of its second step: two entries, total_steps 1.
C35_Witness ==
    /\ sim_pc = "returned"
    /\ loop_end = "error"
    /\ Len(final_results.steps) = 2
    /\ final_results.total_steps = 1
    /\ final_results.steps[2].step = 2

(***************************************************************************)
(* Claims about the memory store and retrieval (checked under SpecMem)     *)
(***************************************************************************)
\* C8: under any interleaving of appends, main-path retrievals and background
\* enrichment calls, len(embeddings) = len(importance_scores) <= len(memories)
\* and the i-th derived value belongs to the i-th entry (the enriched entries
\* are a contiguous prefix of the store).
C8_DerivedArraysArePrefix ==
    LET e == IF embeddings.is_none THEN <<>> ELSE embeddings.values
        s == IF importance_scores.is_none THEN <<>> ELSE importance_scores.values
    IN  /\ Len(e) = Len(s)
        /\ Len(e) <= Len(memories)
        /\ \A i \in 1..Len(e) : e[i] = i
        /\ \A i \in 1..Len(s) : s[i].owner = i

\* A retrieval of the main path has run its enrichment on a full store and the
\* background loop has completed an update_memory() call on it.
C8_Witness ==
    /\ Len(memories) = MaxMemories
    /\ retrieved.valid /\ retrieved.path = "seed" /\ retrieved.stored = MaxMemories
    /\ bg_pc = "sleep"
    /\ \E i \in 1..Len(memories) : memories[i].memory_type = "reflection"

\* The entries of the store, at the return of the last retrieval, that fall in
\* the recency windows of that call.
RecentAtCall ==
    {i \in 1..retrieved.stored :
        \/ memories[i].memory_type = "observation"
             /\ memories[i].timestamp >= retrieved.now - 3
        \/ memories[i].memory_type = "action"
             /\ memories[i].timestamp >= retrieved.now - 5}

\* C9: a retrieve_relevant call with include_recent=True and n at least the
\* size of the seed list returns every observation with timestamp >= now-3 and
\* every action with timestamp >= now-5 that is in the store.
C9_RecentAlwaysIncluded ==
    (retrieved.valid /\ retrieved.include_recent
        /\ Cardinality(RecentAtCall) <= retrieved.n)
        => RecentAtCall \subseteq Range(retrieved.result)

\* Such a call on a store that also holds an observation older than its window.
C9_Witness ==
    /\ retrieved.valid /\ retrieved.include_recent
    /\ RecentAtCall # {}
    /\ Cardinality(RecentAtCall) <= retrieved.n
    /\ \E i \in 1..retrieved.stored :
            /\ memories[i].memory_type = "observation"
            /\ memories[i].timestamp < retrieved.now - 3
            /\ i \notin Range(retrieved.result)

\* C10: the list retrieve_relevant returns never contains the same memory
\* entry twice.
C10_NoDuplicates ==
    retrieved.valid
        => \A i, j \in 1..Len(retrieved.result) :
               i # j => retrieved.result[i] # retrieved.result[j]

\* A returned list with an observation and an action.
C10_Witness ==
    /\ retrieved.valid
    /\ Len(retrieved.result) >= 2
    /\ \E i, j \in Range(retrieved.result) :
            /\ memories[i].memory_type = "observation"
            /\ memories[j].memory_type = "action"

\* C11: for every cap n >= 0 the list retrieve_relevant returns has at most n
\* entries.
C11_AtMostN == retrieved.valid => Len(retrieved.result) <= retrieved.n

\* A call whose cap cut the seed list.
C11_Witness ==
    /\ retrieved.valid /\ retrieved.include_recent
    /\ retrieved.n >= 1
    /\ Cardinality(RecentAtCall) > retrieved.n
    /\ Len(retrieved.result) = retrieved.n

\* The 5 most recently appended of the entries the store held at the return of
\* the last retrieval (all of them when there are fewer), in insertion order.
LastFiveAtCall ==
    [k \in 1..(IF retrieved.stored > 5 THEN 5 ELSE retrieved.stored) |->
        (IF retrieved.stored > 5 THEN retrieved.stored - 5 ELSE 0) + k]

\* C12: a retrieve_relevant call in which enrichment, the query embedding or
\* scoring raised returns exactly the 5 most recently appended entries (all of
\* them when the store holds fewer), in insertion order.
C12_FallbackOnAnyFailure ==
    (retrieved.valid
        /\ \/ retrieved.enrichment \in {"raised", "failed"}
           \/ retrieved.path = "fallback")
        => retrieved.result = LastFiveAtCall

\* The seed list of the last retrieval: the observations of its window in
\* insertion order, then the actions of its window in insertion order.
SeedAtCall ==
    LET stored == [i \in 1..retrieved.stored |-> i]
        obs == SelectSeq(stored, LAMBDA i : memories[i].memory_type = "observation"
                                   /\ memories[i].timestamp >= retrieved.now - 3)
        acts == SelectSeq(stored, LAMBDA i : memories[i].memory_type = "action"
                                    /\ memories[i].timestamp >= retrieved.now - 5)
    IN  IF retrieved.include_recent THEN obs \o acts ELSE <<>>

\* A store of 4 observations at the ticks 0..3, retrieved from at tick 3 with
\* n = 10 and include_recent.
FourObservations ==
    /\ Len(memories) = 4
    /\ \A i \in 1..4 : /\ memories[i].memory_type = "observation"
                       /\ memories[i].timestamp = i - 1
    /\ retrieved.valid /\ retrieved.include_recent
    /\ retrieved.stored = 4 /\ retrieved.now = 3 /\ retrieved.n = 10

\* C13: while the store has no embeddings, retrieve_relevant returns without
\* error the seed list cut to n; from 4 observations at the ticks 0..3, at tick
\* 3 and with n = 10, it returns those 4 entries in insertion order.
C13_SeedListWithoutEmbeddings ==
    /\ (retrieved.valid /\ (embeddings.is_none \/ embeddings.values = <<>>))
          => /\ retrieved.path \in {"empty", "seed"}
             /\ retrieved.result =
                   SubSeq(SeedAtCall, 1, IF retrieved.n < Len(SeedAtCall)
                                         THEN retrieved.n ELSE Len(SeedAtCall))
    /\ FourObservations => retrieved.result = <<1, 2, 3, 4>>

C13_Witness == FourObservations /\ embeddings.is_none /\ retrieved.path = "seed"

\* C14: a retrieval on a non-empty store in which no capability call fails is
\* on the scored path, and its result is the seed list followed by the
\* score-ranked entries that are not in the seed list, the whole cut to n: every
\* seed entry precedes every fill entry and none is displaced by one.
C14_SeedThenRankedFill ==
    (retrieved.valid /\ retrieved.stored > 0
        /\ retrieved.enrichment # "failed" /\ retrieved.path # "fallback")
        => \E m \in 1..retrieved.stored : \E ranking \in Rankings(m) :
              LET top == SubSeq(ranking, 1, IF retrieved.n < m THEN retrieved.n ELSE m)
                  fill == SelectSeq(top, LAMBDA i : i \notin Range(SeedAtCall))
                  all == SeedAtCall \o fill
              IN  retrieved.result =
                     SubSeq(all, 1, IF retrieved.n < Len(all) THEN retrieved.n ELSE Len(all))

(***************************************************************************)
(* Claims about enrichment (checked under SpecEnrich)                      *)
(***************************************************************************)
\* The background loop is about to make, or makes and ends, an update_memory()
\* call; the size of the store when the call in progress was made; the entries
\* whose importance it is to compute.
BgSyncStarts == bg_pc = "update" /\ sync["bg"].pc = "idle"
BgSyncMade == BgSyncStarts /\ (bg_pc' = "sleep" \/ sync'["bg"].pc = "gather")
BgSyncReturns == bg_pc = "update" /\ bg_pc' = "sleep"
StoredAtCall == IF sync["bg"].pc = "idle" THEN Len(memories) ELSE last_sync.last
EmbedAtCall == IF sync["bg"].pc = "idle" THEN capability.embed ELSE last_sync.embed
ImportanceBatch ==
    IF sync["bg"].pc = "idle"
    THEN {k \in 1..Len(memories) : k > LenOrZero(importance_scores)}
    ELSE Range(sync["bg"].to_update)

\* C15: a sync call made from any store state, a never enriched store
\* included, in which the embedding call and every importance call succeed,
\* issues calls only for the entries beyond the enriched prefix, and on its
\* return both derived arrays cover every entry the store held when it was made.
C15_SyncCoversTheStore ==
    [][ /\ BgSyncMade =>
              \A k \in Range(sync'["bg"].to_embed) : k > LenOrZero(embeddings)
        /\ (BgSyncReturns /\ capability = AllOk) =>
              /\ LenOrZero(embeddings') >= StoredAtCall
              /\ LenOrZero(importance_scores') >= StoredAtCall ]_vars

\* C16: a sync call made when no entry was appended since the last completed
\* one (a call whose embedding call did not fail) issues no embedding call and
\* no importance call and leaves both derived arrays unchanged, so that two
\* calls in a row give the arrays of one.
C16_SyncIsIdempotent ==
    [][ (BgSyncStarts /\ last_sync.called /\ last_sync.embed = "ok"
            /\ last_sync.last = Len(memories))
          => /\ sync'["bg"].pc = "idle"
             /\ embeddings' = embeddings
             /\ importance_scores' = importance_scores ]_vars

\* A second call in a row on a store that holds entries has returned.
C16_Witness ==
    /\ last_sync.called /\ last_sync.again /\ last_sync.embed = "ok"
    /\ last_sync.last = Len(memories) /\ Len(memories) >= 1
    /\ bg_pc = "sleep"

\* C17: a sync call whose batch embedding call fails returns without raising
\* and extends neither derived array, and the next sync call picks the same
\* entries up again.
C17_EmbeddingFailureIsRecoverable ==
    [][ /\ (BgSyncReturns /\ EmbedAtCall = "fail")
              => /\ embeddings' = embeddings
                 /\ importance_scores' = importance_scores
        /\ (BgSyncMade /\ last_sync.called /\ last_sync.embed = "fail"
               /\ last_sync.first <= last_sync.last
               /\ LenOrZero(embeddings) < last_sync.first)
              => /\ sync'["bg"].pc = "gather"
                 /\ \A k \in last_sync.first..last_sync.last :
                        k \in Range(sync'["bg"].to_embed) ]_vars

\* C18: a sync call in which the importance call fails for one entry of the
\* batch commits the whole batch, with importance 0.5 for that entry and the
\* scored value for every other entry of the batch.
C18_ImportanceFailureIsPerEntry ==
    [][ (BgSyncReturns /\ EmbedAtCall = "ok"
            /\ \E k \in ImportanceBatch : capability.importance_fails = {k})
          => /\ LenOrZero(embeddings') >= StoredAtCall
             /\ \A k \in ImportanceBatch :
                    /\ k <= LenOrZero(importance_scores')
                    /\ importance_scores'.values[k] =
                          [owner |-> k,
                           value |-> IF k \in capability.importance_fails
                                     THEN "default" ELSE "scored"] ]_vars

(***************************************************************************)
(* Claims about teardown (checked under SpecTeardown)                      *)
(***************************************************************************)
\* C20: however the run ends, teardown cancels the background task and awaits
\* it: once the run is over the task is cancelled (or was never created), it
\* runs no reflect and no enrichment any more and the store stays as it is.
C20_TeardownStopsTheTask ==
    /\ [](Ended => policy_cleaned /\ bg_pc \in {"unstarted", "cancelled"})
    /\ [][Ended => /\ bg_pc' = bg_pc
                   /\ memories' = memories
                   /\ embeddings' = embeddings
                   /\ importance_scores' = importance_scores
                   /\ sync' = sync ]_vars

\* A run ended by a per-step error, whose task had reflected and was cancelled.
C20_Witness ==
    /\ Ended /\ loop_end = "error"
    /\ bg_pc = "cancelled"
    /\ \E i \in 1..Len(memories) : memories[i].memory_type = "reflection"

(***************************************************************************)
(* Claims about Agent.act (checked under SpecAct)                          *)
(***************************************************************************)
\* The last act() call got a JSON response with exactly one item.
SingleItem ==
    /\ act_ret.returned
    /\ act_ret.response.kind = "json"
    /\ Len(act_ret.response.actions) = 1

ClickOnX ==
    [kind |-> "action", type |-> "click", element_id |-> "x", reason |-> Missing]

C28_TypeIsPreserved ==
    (act_ret.returned /\ ~ActFails(act_ret.response)) =>
        \A i \in 1..Len(act_ret.response.actions) :
            act_ret.response.actions[i].type \in ActionType
                => act_ret.actions[i].type = act_ret.response.actions[i].type

\* The action entries appended since act() was called.
ActionEntriesOfCall ==
    {i \in (act_base + 1)..Len(memories) : memories[i].memory_type = "action"}

\* C29: when act() has returned, it has appended as many action entries as it
\* returns actions; and a failed act() returns the empty list.
C29_OneEntryPerReturnedAction ==
    act_ret.returned =>
        /\ Cardinality(ActionEntriesOfCall) = Len(act_ret.actions)
        /\ ActFails(act_ret.response) => act_ret.actions = <<>>

(***************************************************************************)
(* Claims about the ticks of the policies (checked under SpecTick)         *)
(***************************************************************************)
\* The background task exists and has not been cancelled.
TaskRunning == bg_pc \in {"reflect", "reflecting", "update", "sleep"}

\* One step of the background task: its first iteration begins with reflect();
\* update_memory() is entered from reflect() only, the sleep from
\* update_memory() only, and the next reflect() from the sleep only (the task
\* may be cancelled anywhere).
BgInOrder ==
    /\ (bg_pc = "unstarted" /\ bg_pc' # bg_pc) => bg_pc' = "reflect"
    /\ (bg_pc' = "update" /\ bg_pc # bg_pc') => bg_pc \in {"reflect", "reflecting"}
    /\ (bg_pc' = "sleep" /\ bg_pc # bg_pc') => bg_pc = "update"
    /\ (bg_pc' = "reflect" /\ bg_pc # bg_pc') => bg_pc \in {"unstarted", "sleep"}
    /\ (bg_pc' = "reflecting" /\ bg_pc # bg_pc') => bg_pc = "reflect"

Pos(e) ==
    IF \E i \in 1..Len(tick_log) : tick_log[i] = e
    THEN CHOOSE i \in 1..Len(tick_log) : tick_log[i] = e
    ELSE 0

Happened(e) == Pos(e) > 0

\* a has happened, and before b.
Precedes(a, b) == Happened(a) /\ Pos(a) < Pos(b)

\* The call that appended an entry of the tick: perceive appends observations,
\* feedback thoughts, plan a plan and its rationale (a thought), act actions.
Origin(m) ==
    CASE m.memory_type = "observation" -> "perceive"
      [] m.memory_type = "thought" /\ m.content = Content -> "feedback"
      [] m.memory_type = "thought" /\ m.content # Content -> "plan"
      [] m.memory_type = "plan" -> "plan"
      [] m.memory_type = "action" -> "act"
      [] OTHER -> "reflect"

\* The entries the tick has appended (and those of the background task since).
TickEntries == (tick_base + 1)..Len(memories)

MainCalls == {"perceive", "feedback", "plan", "act"}

\* The order the claim gives the four calls.
Rank(call) ==
    CASE call = "perceive" -> 1
      [] call = "feedback" -> 2
      [] call = "plan" -> 3
      [] call = "act" -> 4

\* The same, perceive and feedback taken together.
RankOfPhase(call) == IF call \in {"perceive", "feedback"} THEN 1 ELSE Rank(call)

\* plan starts after perceive and feedback have returned, act after plan has.
PlanAndActInOrder ==
    /\ Happened("plan_start") =>
           /\ Precedes("perceive_end", "plan_start")
           /\ Happened("feedback_start") => Precedes("feedback_end", "plan_start")
    /\ Happened("act_start") => Precedes("plan_end", "act_start")

TickCompletes ==
    tick_pc = "acting" /\ tick_pc' = "idle" /\ returned' # AgentErrorStop

\* C23: the entries perceive, feedback, plan and act append during a tick carry
\* the value the tick counter had when the tick began; the counter is increased
\* by a step only when act has returned, then by exactly 1, and every tick that
\* completes increases it.
C23_TickCounter ==
    /\ [](\A i \in TickEntries :
              Origin(memories[i]) \in MainCalls => memories[i].timestamp = tick_start)
    /\ [][/\ timestamp' > timestamp => (TickCompletes /\ timestamp' = timestamp + 1)
          /\ TickCompletes => timestamp' = timestamp + 1]_vars

\* The second tick of an AgentPolicy is over: each of the four calls appended an
\* entry with timestamp 1 and the counter is 2.
C23_Witness ==
    /\ policy_type = "agent"
    /\ tick_pc = "idle"
    /\ tick_start = 1
    /\ timestamp = 2
    /\ \A c \in MainCalls :
           \E i \in TickEntries : Origin(memories[i]) = c /\ memories[i].timestamp = 1

\* C24: the tick counter never decreases and the timestamps of the stored
\* entries are non-decreasing in insertion order.
C24_TimestampsAreMonotonic ==
    /\ [](\A i, j \in 1..Len(memories) :
              i < j => memories[i].timestamp <= memories[j].timestamp)
    /\ [][timestamp' >= timestamp]_vars

\* C25: the state is IDLE between two ticks, PERCEIVING while perceive runs,
\* PLANNING while plan runs and ACTING while act runs, whatever the reflecting
\* activity does.
C25_StateMachine ==
    /\ tick_pc = "idle" => state = "idle"
    /\ (tick_pc = "gather" /\ gather.perceive = "awaiting") => state = "perceiving"
    /\ tick_pc = "planning" => state = "planning"
    /\ tick_pc = "acting" => state = "acting"

\* C26: a tick in which feedback was called is not the first (the counter was
\* not 0 when it began and an earlier call has returned an action), and feedback
\* was given the action the preceding call returned.
C26_FeedbackGating ==
    (tick_pc # "idle" /\ Happened("feedback_start")) =>
        /\ tick_start # 0
        /\ returned # NoAction
        /\ fb_arg = returned

C26_Witness ==
    /\ tick_pc = "gather"
    /\ Happened("feedback_start")
    /\ fb_arg.type = "click"
    /\ fb_arg = returned

\* The tick's act() call returned the empty list and the tick is over.
NoActionProduced == tick_pc = "idle" /\ act_ret.returned /\ act_ret.actions = <<>>

\* C30: when act() has returned the empty list, the call returns a stop action;
\* under the driver the step is recorded with its stop reason, the loop is over
\* as stopped by the agent, and environment.step was called for the earlier
\* steps only.
C30_NoActionMeansStop ==
    NoActionProduced =>
        /\ returned.type = "stop"
        /\ policy_type = "agent" =>
               /\ loop_end = "stop"
               /\ sim_pc \in {"finalize", "finally", "returned"}
               /\ Len(submitted) = step_count
               /\ results[Len(results)].stop_reason = returned.reason

C30_Witness ==
    /\ policy_type = "agent"
    /\ NoActionProduced
    /\ act_ret.response.kind = "json"
    /\ step_count = 1
    /\ sim_pc = "returned"

(***************************************************************************)
(* Claims about single calls of the core operations (checked under         *)
(* SpecCalls)                                                              *)
(***************************************************************************)
\* C33: no core operation raises to its caller, whatever the chat capability
\* answers.
C33_NoExceptionCrossesABoundary == raised = {}


(***************************************************************************)
(* Claims about CompositeRelevanceClassifier (checked under SpecVote)      *)
(***************************************************************************)
\* The members that vote true, and those that vote false.
Ayes == {i \in 1..Len(classifiers) : classifiers[i]}
Noes == {i \in 1..Len(classifiers) : ~classifiers[i]}

\* C34: the value is_relevant returns is true under "majority" exactly when the
\* true votes outnumber the false ones, under "unanimous" exactly when no member
\* votes false, and under "any" exactly when some member votes true, for every
\* number of members from 0 on.
C34_CompositeClassifier ==
    verdict.returned =>
        /\ voting_strategy = "majority" =>
               (verdict.value <=> Cardinality(Ayes) > Cardinality(Noes))
        /\ voting_strategy = "unanimous" => (verdict.value <=> Noes = {})
        /\ voting_strategy = "any" => (verdict.value <=> Ayes # {})

\* A tie of a composite under "majority": two members, one vote each way, and
\* the call has returned false.
C34_Witness ==
    /\ verdict.returned
    /\ voting_strategy = "majority"
    /\ classifiers = <<TRUE, FALSE>>
    /\ ~verdict.value


(***************************************************************************)
(* Claims about the two run methods (checked under SpecCompare)            *)
(***************************************************************************)
BothReported == \A m \in RunMethods : reported[m] # NoResults

\* What a result says about the step counting.
StepCounting(r) == <<r.total_steps, r.steps, r.completed>>

ClaimedDelay(i) == IF i = 1 THEN 1 ELSE IF i = 2 THEN 2 ELSE IF i = 3 THEN 4 ELSE 5

Failures == {i \in 1..Len(invoked) : invoked[i].kind = "exception"}

\* C37: the wrapped function is invoked at most 10 times; the wrapper returns the
\* result of the first successful invocation, which is the last invocation made;
\* it raises only after 10 failed invocations, and then the exception of the
\* 10th; the delay slept after the i-th failure is 1, 2, 4, 5, 5, ...
C37_CapabilityRetry ==
    /\ [](/\ Len(invoked) <= 10
          /\ \A i \in 1..Len(sleeps) : sleeps[i] = ClaimedDelay(i)
          /\ \A i \in 1..(Len(invoked) - 1) :
                 /\ invoked[i].kind = "exception"
                 /\ Len(sleeps) >= i)
    /\ [](retry_pc = "returned"
            => /\ invoked[Len(invoked)].kind = "result"
               /\ retry_ret = invoked[Len(invoked)])
    /\ [](retry_pc = "raised"
            => /\ Len(invoked) = 10
               /\ Failures = 1..10
               /\ retry_ret = invoked[10])
    /\ [][(retry_pc \in {"returned", "raised"}) => (invoked' = invoked)]_vars

\* Ten invocations failed, the last with e2 after nine with e1: the wrapper has
\* raised e2.
C37_Witness ==
    /\ retry_pc = "raised"
    /\ Len(invoked) = 10
    /\ \A i \in 1..9 : invoked[i].value = "e1"
    /\ retry_ret.value = "e2"

(***************************************************************************)
(* Claims about a reused Simulation object (checked under SpecReuse)       *)
(***************************************************************************)
\* The steps the current call has completed.
StepsOfThisCall == {i \in 1..Len(submitted) : submitted[i].outcome # "raise"}

\* C39: every call of a run method enters its step loop with the step counter 0
\* and the audit trail empty, and reports as total_steps the steps it completed
\* itself, also on a Simulation object that has already completed a run.
C39_RunsAreIndependent ==
    /\ [][(sim_pc = "setup" /\ sim_pc' = "loop") => (step_count' = 0 /\ results' = <<>>)]_vars
    /\ [](sim_pc = "returned" => final_results.total_steps = Cardinality(StepsOfThisCall))


(***************************************************************************)
(* Claims about Simulation.stop() (checked under FairSpecStop)             *)
(***************************************************************************)
\* The run has returned its results and the background task is not running.
ReturnedAndTornDown ==
    /\ sim_pc = "returned"
    /\ final_results.steps = results
    /\ final_results.total_steps = step_count
    /\ policy_cleaned
    /\ bg_pc \in {"unstarted", "cancelled"}

\* C40: once stop() has been called during the step loop no policy decision is
\* started any more (the environment call of the step in progress may still
\* complete), and the run ends: it returns its results, with the background
\* task torn down.
C40_ExternalStop ==
    /\ [][stop_requested => (decision_log' = decision_log)]_vars
    /\ [](stop_requested => Len(submitted) <= Len(decision_log))
    /\ stop_requested ~> ReturnedAndTornDown

\* stop() was called while the environment call of the second step was awaited:
\* the step completed, the loop ended below max_steps and the run returned with
\* the task cancelled.
C40_Witness ==
    /\ stop_requested
    /\ ReturnedAndTornDown
    /\ bg_pc = "cancelled"
    /\ max_steps = 3
    /\ step_count = 2
    /\ Len(results) = 2
    /\ decision_log = <<"click", "click">>


====
